---- MODULE Spec2Model ----
(***************************************************************************)
(* Verification model of the SpacetimeDB admin portal:                     *)
(*   - SchemaDiscovery (schema cache) and the SpacetimeHttpClient calls it *)
(*     awaits, with the interleavings that the awaits allow;               *)
(*   - the SATS-JSON row / value decoder of the SQL query route.           *)
(* JSON objects are records, JSON arrays are sequences.  A JSON value of   *)
(* the wire is a record tagged with its JavaScript kind.                   *)
(***************************************************************************)
EXTENDS Integers, Sequences, FiniteSets, TLC

VARIABLES
    cache,            \* SchemaDiscovery.cache : SchemaCache | null
    now,              \* the clock read by new Date(), in milliseconds
    cacheTtlMinutes,  \* config.spacetime.cacheTtlMinutes
    calls,            \* per caller: the getAllTables / getTable call it awaits
    cleared,          \* history: "yes" once clearCache() ran, until the next read
                      \* starts or the entry is rewritten; then the caller whose
                      \* call in flight is that next read; "no" otherwise
    lastWriter,       \* history: the caller whose getAllTables wrote the cache last
    wire,             \* decoder input: a raw SATS-JSON value (or row)
    columns,          \* decoder input: the column definitions of the result
    decoded,          \* decoder output of the last decoding step
    descriptor,       \* resolver input: an algebraic type descriptor (or none)
    typespace,        \* resolver context: schema.typespace.types
    resolved,         \* resolver output of the last resolution step
    query,            \* SQL route input: maxRows and the database's results
    response,         \* SQL route output: the JSON body answered
    backupPage,       \* BackupPage: the state of the restore dialog
    queryBuilder,     \* QueryBuilder: the state of the component
    bulk,             \* POST /api/sql/bulk: the request and its progress
    auth,             \* middleware and GET /api/session: cookie, clock, answers
    health,           \* GET /api/health: the database's answers and the response
    tablePage         \* TablePage: rows, pagination and selection

vars == <<cache, now, cacheTtlMinutes, calls, cleared, lastWriter, wire, columns, decoded,
          descriptor, typespace, resolved, query, response,
          backupPage, queryBuilder, bulk, auth, health, tablePage>>

cacheVars  == <<cache, now, cacheTtlMinutes, calls, cleared, lastWriter>>
decodeVars == <<wire, columns, decoded>>
resolveVars == <<descriptor, typespace, resolved>>
queryVars  == <<query, response>>
portalVars == <<backupPage, queryBuilder, bulk, auth, health, tablePage>>

(***************************************************************************)
(* Bounds of the model                                                     *)
(***************************************************************************)
MaxTicks == 2          \* the clock advances at most this many times
TickMs   == 45000      \* one clock advance, in milliseconds
TtlMinutesChoices == {0, 1}   \* values of NEXT_PUBLIC_CACHE_TTL_MINUTES tried
Callers  == {"c1", "c2"}      \* request handlers that may be in flight together

(***************************************************************************)
(* Results of calls that may throw                                         *)
(***************************************************************************)
Ok(v)  == [ok |-> TRUE, value |-> v]
Thrown == [ok |-> FALSE, value |-> <<>>]

Null == [null |-> TRUE]
IsNull(x) == "null" \in DOMAIN x

(***************************************************************************)
(* The remote database: the schema document served by GET .../schema       *)
(***************************************************************************)
Prim(kind) == [p \in {kind} |-> <<>>]
Elem(name, ty) == [name |-> [some |-> name], algebraic_type |-> ty]
Unnamed(ty)    == [name |-> [none |-> <<>>], algebraic_type |-> ty]
ProductOf(elements) == [Product |-> [elements |-> elements]]
SumOf(variants)     == [Sum |-> [variants |-> variants]]

TimestampType == ProductOf(<<Elem("__timestamp_micros_since_unix_epoch__", Prim("I64"))>>)
IdentityType  == ProductOf(<<Elem("__identity__", Prim("U256"))>>)

\* The document is the same at every fetch; what varies between fetches is
\* whether the database answers.  "broken" refers to a type that is no Product,
\* so its column discovery always throws.
RemoteSchema ==
    [ tables |-> << [name |-> "players", product_type_ref |-> 0],
                    [name |-> "broken",  product_type_ref |-> 1],
                    [name |-> "items",   product_type_ref |-> 2] >>,
      typespace |-> [ types |-> <<
          ProductOf(<<Elem("id", Prim("U32")), Elem("joined", TimestampType)>>),
          SumOf(<<Elem("a", Prim("U8")), Elem("b", Prim("String"))>>),
          ProductOf(<<Unnamed(Prim("String")), Elem("owner", IdentityType)>>) >> ] ]

\* the table names a caller may ask getTable for ("ghost" is in no schema)
TableNameArgs == {"players", "ghost"}

\* one HTTP exchange with the database per schema endpoint tried
NumEndpoints == 4
\* the endpoints fail up to some position: first answers, only the last
\* answers, none answers
Responses == {[i \in 1..NumEndpoints |-> i >= k] : k \in {1, NumEndpoints, NumEndpoints + 1}}

(***************************************************************************)
(* SpacetimeHttpClient                                                     *)
(***************************************************************************)
Has(obj, key) == key \in DOMAIN obj

\* getDatabaseSchema: the endpoints are tried in order, the first response
\* that is ok is returned, and the last error is thrown when none is.
\* resps[i] says whether the i-th endpoint tried answers.
RECURSIVE getDatabaseSchema(_)
getDatabaseSchema(resps) ==
    IF resps = <<>> THEN Thrown
    ELSE IF Head(resps) THEN Ok(RemoteSchema)
    ELSE getDatabaseSchema(Tail(resps))

\* getTables swallows every error of the schema fetch and answers []
getTables(resps) ==
    LET schema == getDatabaseSchema(resps)
    IN  IF schema.ok
        THEN [i \in DOMAIN schema.value.tables |-> schema.value.tables[i].name]
        ELSE <<>>

PrimitiveTag(algType) ==
    CASE Has(algType, "U8")     -> "u8"
      [] Has(algType, "U16")    -> "u16"
      [] Has(algType, "U32")    -> "u32"
      [] Has(algType, "U64")    -> "u64"
      [] Has(algType, "U128")   -> "u128"
      [] Has(algType, "I8")     -> "i8"
      [] Has(algType, "I16")    -> "i16"
      [] Has(algType, "I32")    -> "i32"
      [] Has(algType, "I64")    -> "i64"
      [] Has(algType, "I128")   -> "i128"
      [] Has(algType, "F32")    -> "f32"
      [] Has(algType, "F64")    -> "f64"
      [] Has(algType, "Bool")   -> "bool"
      [] Has(algType, "String") -> "string"
      [] Has(algType, "U256")   -> "u256"
      [] OTHER                  -> ""

\* elem.name?.some
NameSome(elem) ==
    IF Has(elem, "name") /\ Has(elem.name, "some") THEN elem.name.some ELSE ""

\* faulty variant: the last fallback is "unknown"
formatAlgebraicTypeUnknownFallback(algType) ==
    IF IsNull(algType) THEN "unknown"
    ELSE IF PrimitiveTag(algType) # "" THEN PrimitiveTag(algType)
    ELSE IF Has(algType, "Product") /\ Has(algType.Product, "elements") THEN "struct"
    ELSE IF Has(algType, "Sum") THEN "enum"
    ELSE IF Has(algType, "Ref") THEN "ref(" \o ToString(algType.Ref) \o ")"
    ELSE "unknown"

formatAlgebraicType(algType) ==
    IF IsNull(algType) THEN "unknown"
    ELSE IF PrimitiveTag(algType) # "" THEN PrimitiveTag(algType)
    ELSE IF Has(algType, "Product") /\ Has(algType.Product, "elements") THEN
        LET elements == algType.Product.elements
        IN  IF Len(elements) = 1 /\ NameSome(elements[1]) = "__timestamp_micros_since_unix_epoch__"
              THEN "Timestamp"
            ELSE IF Len(elements) = 1 /\ NameSome(elements[1]) = "__identity__"
              THEN "Identity"
            ELSE IF Len(elements) = 1 /\ NameSome(elements[1]) = "__time_duration_micros__"
              THEN "Duration"
            ELSE "struct"
    ELSE IF Has(algType, "Sum") THEN "enum"
    ELSE IF Has(algType, "Ref") THEN "ref(" \o ToString(algType.Ref) \o ")"
    ELSE "complex"

\* one element of productType.Product.elements -> {name, type, nullable}
SchemaColumn(col) ==
    [ name |-> IF NameSome(col) # "" THEN NameSome(col) ELSE "unknown",
      type |-> formatAlgebraicType(col.algebraic_type),
      nullable |-> TRUE ]

\* schema.tables.find((t) => t.name === tableName)
RECURSIVE FindByName(_, _)
FindByName(tables, tableName) ==
    IF tables = <<>> THEN Null
    ELSE IF Head(tables).name = tableName THEN Head(tables)
    ELSE FindByName(Tail(tables), tableName)

\* schema.typespace.types[ref], undefined when out of range
TypeAt(types, ref) == IF ref + 1 \in DOMAIN types THEN types[ref + 1] ELSE Null

getTableSchema(tableName, resps) ==
    LET schema == getDatabaseSchema(resps)
    IN  IF ~schema.ok THEN Thrown
        ELSE LET table == FindByName(schema.value.tables, tableName)
             IN  IF IsNull(table) THEN Thrown
                 ELSE LET productType == TypeAt(schema.value.typespace.types, table.product_type_ref)
                      IN  IF IsNull(productType) \/ ~Has(productType, "Product")
                                \/ ~Has(productType.Product, "elements")
                            THEN Thrown
                            ELSE Ok([i \in DOMAIN productType.Product.elements |->
                                        SchemaColumn(productType.Product.elements[i])])

getTableRowCount(tableName) == 0

(***************************************************************************)
(* SchemaDiscovery                                                         *)
(***************************************************************************)
ToLowerCase(type) ==
    CASE type = "Timestamp" -> "timestamp"
      [] type = "Identity"  -> "identity"
      [] type = "Duration"  -> "duration"
      [] OTHER              -> type

ToUpperCase(type) ==
    CASE type = "Timestamp" -> "TIMESTAMP"
      [] type = "Identity"  -> "IDENTITY"
      [] type = "Duration"  -> "DURATION"
      [] type = "struct"    -> "STRUCT"
      [] type = "enum"      -> "ENUM"
      [] type = "complex"   -> "COMPLEX"
      [] type = "unknown"   -> "UNKNOWN"
      [] type = "u256"      -> "U256"
      [] type = "ref(0)"    -> "REF(0)"
      [] type = "ref(1)"    -> "REF(1)"
      [] type = "ref(2)"    -> "REF(2)"
      [] OTHER              -> type

normalizeDataType(type) ==
    LET typeLower == ToLowerCase(type)
    IN  CASE typeLower = "i8"       -> "SMALLINT"
          [] typeLower = "i16"      -> "SMALLINT"
          [] typeLower = "i32"      -> "INTEGER"
          [] typeLower = "i64"      -> "BIGINT"
          [] typeLower = "i128"     -> "NUMERIC"
          [] typeLower = "u8"       -> "SMALLINT"
          [] typeLower = "u16"      -> "INTEGER"
          [] typeLower = "u32"      -> "BIGINT"
          [] typeLower = "u64"      -> "NUMERIC"
          [] typeLower = "u128"     -> "NUMERIC"
          [] typeLower = "f32"      -> "REAL"
          [] typeLower = "f64"      -> "DOUBLE PRECISION"
          [] typeLower = "bool"     -> "BOOLEAN"
          [] typeLower = "string"   -> "TEXT"
          [] typeLower = "identity" -> "BIGINT"
          [] typeLower = "address"  -> "TEXT"
          [] OTHER                  -> ToUpperCase(type)

ColumnMetadataOf(col) ==
    [ name |-> col.name, dataType |-> normalizeDataType(col.type),
      nullable |-> col.nullable, isPrimary |-> FALSE, isUnique |-> FALSE ]

discoverColumns(tableName, resps) ==
    LET schemaInfo == getTableSchema(tableName, resps)
    IN  IF schemaInfo.ok
        THEN Ok([i \in DOMAIN schemaInfo.value |-> ColumnMetadataOf(schemaInfo.value[i])])
        ELSE Thrown

\* Promise.all of discoverColumns and getTableRowCount: rejects when the
\* column discovery rejects
discoverTable(tableName, resps) ==
    LET cols == discoverColumns(tableName, resps)
    IN  IF cols.ok
        THEN Ok(<<[ name |-> tableName, schema |-> "public", columns |-> cols.value,
                    indexes |-> <<>>, constraints |-> <<>>,
                    estimatedRows |-> getTableRowCount(tableName) ]>>)
        ELSE Thrown

\* the outcomes of getTables and discoverTable for every exchange the model
\* draws, evaluated once
ListedNames == [resps \in Responses |-> getTables(resps)]
KnownNames == TableNameArgs \cup {RemoteSchema.tables[i].name : i \in DOMAIN RemoteSchema.tables}
Discovered == [tableName \in KnownNames |-> [resps \in Responses |-> discoverTable(tableName, resps)]]

\* faulty variant: the age test admits cacheAge = ttl
isCacheValidInclusive(c, t) ==
    IF IsNull(c) THEN FALSE ELSE t - c.cachedAt <= c.ttl

\* cacheAge < this.cache.ttl
isCacheValid(c, t) ==
    IF IsNull(c) THEN FALSE ELSE t - c.cachedAt < c.ttl

\* faulty variant: reports the stored `cached` flag instead of the validity
getCacheStatusStoredFlag(c, t) ==
    IF IsNull(c) THEN [cached |-> FALSE]
    ELSE [cached |-> c.cached, age |-> t - c.cachedAt, ttl |-> c.ttl]

getCacheStatus(c, t) ==
    IF IsNull(c) THEN [cached |-> FALSE]
    ELSE [cached |-> isCacheValid(c, t), age |-> t - c.cachedAt, ttl |-> c.ttl]

\* faulty variant: the new tables are added to the entry already there
NewCacheEntryMerged(tables, t) ==
    [ tables |-> (IF IsNull(cache) THEN <<>> ELSE cache.tables) \o tables,
      cached |-> TRUE, cachedAt |-> t, ttl |-> cacheTtlMinutes * 60 * 1000 ]

\* the entry written by getAllTables (lines 119-124)
NewCacheEntry(tables, t) ==
    [ tables |-> tables, cached |-> TRUE, cachedAt |-> t,
      ttl |-> cacheTtlMinutes * 60 * 1000 ]

\* faulty variant: unshift instead of push
pushFront(tables, found) == found \o tables

\* tables.push(table)
push(tables, found) == tables \o found

\* the cached table getTable answers with (lines 134-139), <<>> when none
RECURSIVE FindTable(_, _)
FindTable(tables, tableName) ==
    IF tables = <<>> THEN <<>>
    ELSE IF Head(tables).name = tableName THEN <<Head(tables)>>
    ELSE FindTable(Tail(tables), tableName)

\* faulty variant: the cached table is served without the validity test
CachedTableStale(c, t, tableName, forceRefresh) ==
    IF ~forceRefresh /\ ~IsNull(c) THEN FindTable(c.tables, tableName) ELSE <<>>

CachedTable(c, t, tableName, forceRefresh) ==
    IF ~forceRefresh /\ ~IsNull(c)
    THEN LET cachedTable == FindTable(c.tables, tableName)
         IN  IF cachedTable # <<>> /\ isCacheValid(c, t) THEN cachedTable ELSE <<>>
    ELSE <<>>

\* faulty variant: the entry is emptied instead of dropped
clearCacheEmptied(c) == IF IsNull(c) THEN c ELSE [c EXCEPT !.tables = <<>>]

clearCache(c) == Null

(***************************************************************************)
(* State machine of the schema cache.  A call suspends at every await, so  *)
(* each action runs one handler from one await to the next.                *)
(***************************************************************************)
IdleCall ==
    [ op |-> "none", pc |-> "idle", forceRefresh |-> FALSE, tableName |-> "",
      tableNames |-> <<>>,   \* const tableNames
      idx |-> 0,             \* position of the for-of loop
      tables |-> <<>>,       \* const tables: TableMetadata[]
      result |-> Thrown,     \* what the call resolved to (Thrown: rejected)
      served |-> "none",     \* history: "cache", "full" or "single" discovery
      listed |-> FALSE,      \* history: client.getTables() was called
      listOk |-> FALSE,      \* history: its schema fetch succeeded
      tried |-> <<>>,        \* history: the discoverTable calls made, in order
      overlapped |-> FALSE,  \* history: another rediscovery was in flight meanwhile
      clearedMeanwhile |-> FALSE ] \* history: clearCache() ran during this rediscovery

InitCache ==
    /\ cache = Null
    /\ now = 0
    /\ cacheTtlMinutes \in TtlMinutesChoices
    /\ calls = [c \in Callers |-> IdleCall]
    /\ cleared = "no"
    /\ lastWriter = "none"

Free(c) == calls[c].pc \in {"idle", "done"}

\* history: a read that starts right after clearCache() is the next read
NextReadBy(c) == IF cleared = "yes" THEN c ELSE IF cleared = c THEN "no" ELSE cleared

Discovering(d) == calls[d].op = "getAllTables" /\ calls[d].pc \in {"list", "discover"}

\* getAllTables up to its first await (lines 99-106), run on cache entry e
Begin(c, forceRefresh, e) ==
    IF ~forceRefresh /\ ~IsNull(e) /\ isCacheValid(e, now)
    THEN [calls EXCEPT ![c] =
            [IdleCall EXCEPT !.op = "getAllTables", !.pc = "done",
                             !.forceRefresh = forceRefresh, !.served = "cache",
                             !.result = Ok(e.tables)]]
    ELSE [d \in Callers |->
            IF d = c
            THEN [IdleCall EXCEPT !.op = "getAllTables", !.pc = "list",
                                  !.forceRefresh = forceRefresh, !.served = "full",
                                  !.listed = TRUE,
                                  !.overlapped = \E o \in Callers \ {c} : Discovering(o)]
            ELSE IF Discovering(d) THEN [calls[d] EXCEPT !.overlapped = TRUE]
            ELSE calls[d]]

\* history: clearCache() is run by c while the rediscoveries of others are in flight
ClearedMeanwhile(cs, c) ==
    [d \in Callers |-> IF d # c /\ Discovering(d)
                       THEN [cs[d] EXCEPT !.clearedMeanwhile = TRUE] ELSE cs[d]]

\* GET /api/schema/tables?refresh=... : schemaDiscovery.getAllTables(forceRefresh)
GetAllTables(c, forceRefresh) ==
    /\ Free(c)
    /\ calls' = Begin(c, forceRefresh, cache)
    /\ cleared' = NextReadBy(c)
    /\ UNCHANGED <<cache, now, cacheTtlMinutes, lastWriter, decodeVars, resolveVars, queryVars, portalVars>>

\* POST /api/schema/tables : clearCache() and getAllTables(true) up to its await
PostTables(c) ==
    /\ Free(c)
    /\ calls' = ClearedMeanwhile(Begin(c, TRUE, clearCache(cache)), c)
    /\ cache' = clearCache(cache)
    /\ cleared' = c
    /\ UNCHANGED <<now, cacheTtlMinutes, lastWriter, decodeVars, resolveVars, queryVars, portalVars>>

\* lines 118-126: this.cache = {...}; return tables
Finish(c, call, tables) ==
    /\ cache' = NewCacheEntry(tables, now)
    /\ calls' = [calls EXCEPT ![c] = [call EXCEPT !.pc = "done", !.tables = tables,
                                                  !.result = Ok(tables)]]
    /\ lastWriter' = c
    /\ cleared' = IF cleared \in {"yes", c} THEN "no" ELSE cleared

\* the continuation of `await this.client.getTables()`
GetAllTablesList(c, resps) ==
    /\ calls[c].pc = "list"
    /\ LET tableNames == ListedNames[resps]
           call == [calls[c] EXCEPT !.tableNames = tableNames,
                                    !.listOk = getDatabaseSchema(resps).ok]
       IN  IF tableNames = <<>>
           THEN Finish(c, call, <<>>)
           ELSE /\ calls' = [calls EXCEPT ![c] = [call EXCEPT !.pc = "discover", !.idx = 1]]
                /\ UNCHANGED <<cache, lastWriter, cleared>>
    /\ UNCHANGED <<now, cacheTtlMinutes, decodeVars, resolveVars, queryVars, portalVars>>

\* the continuation of `await this.discoverTable(tableName)` in the loop
GetAllTablesDiscover(c, resps) ==
    /\ calls[c].pc = "discover"
    /\ LET tableName == calls[c].tableNames[calls[c].idx]
           table == Discovered[tableName][resps]
           tables == IF table.ok THEN push(calls[c].tables, table.value) ELSE calls[c].tables
           call == [calls[c] EXCEPT !.tried = Append(@, [name |-> tableName, ok |-> table.ok])]
       IN  IF calls[c].idx = Len(calls[c].tableNames)
           THEN Finish(c, call, tables)
           ELSE /\ calls' = [calls EXCEPT ![c] = [call EXCEPT !.tables = tables, !.idx = @ + 1]]
                /\ UNCHANGED <<cache, lastWriter, cleared>>
    /\ UNCHANGED <<now, cacheTtlMinutes, decodeVars, resolveVars, queryVars, portalVars>>

\* GET /api/schema/table/[name] : getTable up to its await (lines 132-141)
GetTable(c, tableName, forceRefresh) ==
    /\ Free(c)
    /\ LET cachedTable == CachedTable(cache, now, tableName, forceRefresh)
       IN  calls' = [calls EXCEPT ![c] =
             IF cachedTable # <<>>
             THEN [IdleCall EXCEPT !.op = "getTable", !.pc = "done", !.tableName = tableName,
                                   !.forceRefresh = forceRefresh, !.served = "cache",
                                   !.result = Ok(cachedTable)]
             ELSE [IdleCall EXCEPT !.op = "getTable", !.pc = "single", !.tableName = tableName,
                                   !.forceRefresh = forceRefresh, !.served = "single"]]
    /\ cleared' = NextReadBy(c)
    /\ UNCHANGED <<cache, now, cacheTtlMinutes, lastWriter, decodeVars, resolveVars, queryVars, portalVars>>

\* the continuation of `return this.discoverTable(tableName)`
GetTableDiscover(c, resps) ==
    /\ calls[c].pc = "single"
    /\ LET table == Discovered[calls[c].tableName][resps]
       IN  calls' = [calls EXCEPT ![c] =
             [@ EXCEPT !.pc = "done", !.result = table,
                       !.tried = <<[name |-> calls[c].tableName, ok |-> table.ok]>>]]
    /\ cleared' = IF cleared = c THEN "no" ELSE cleared
    /\ UNCHANGED <<cache, now, cacheTtlMinutes, lastWriter, decodeVars, resolveVars, queryVars, portalVars>>

ClearCache ==
    /\ cache' = clearCache(cache)
    /\ cleared' = "yes"
    /\ calls' = ClearedMeanwhile(calls, "none")
    /\ UNCHANGED <<now, cacheTtlMinutes, lastWriter, decodeVars, resolveVars, queryVars, portalVars>>

Tick ==
    /\ now < MaxTicks * TickMs
    /\ now' = now + TickMs
    /\ UNCHANGED <<cache, cacheTtlMinutes, calls, cleared, lastWriter, decodeVars, resolveVars, queryVars, portalVars>>

(***************************************************************************)
(* SQL query route: the SATS-JSON decoder.  A JSON value is tagged with    *)
(* what typeof / Array.isArray say of it.                                  *)
(***************************************************************************)
MaxLen   == 2    \* longest outer array (or row) decoded
MaxInner == 2    \* longest array nested in it
MaxCols  == 2    \* most columns of a result

JNull       == [kind |-> "null"]
JUndefined  == [kind |-> "undefined"]
JNum(n)     == [kind |-> "number", val |-> n]
JStr(str)   == [kind |-> "string", val |-> str]
JBool(b)    == [kind |-> "boolean", val |-> b]
JArr(elems) == [kind |-> "array", val |-> elems]
JObj(props) == [kind |-> "object", val |-> props]

\* typeof v === 'string' || typeof v === 'number' || typeof v === 'boolean'
IsPrimitive(v) == v.kind \in {"string", "number", "boolean"}

\* faulty variant: every one-element array is unwrapped, whatever its element
RECURSIVE parseSatsJsonValueUnwrapAny(_)
parseSatsJsonValueUnwrapAny(value) ==
    IF value.kind \in {"null", "undefined"} THEN JNull
    ELSE IF IsPrimitive(value) THEN value
    ELSE IF value.kind = "array" THEN
        IF Len(value.val) = 1 THEN parseSatsJsonValueUnwrapAny(value.val[1])
        ELSE JArr([i \in DOMAIN value.val |-> parseSatsJsonValueUnwrapAny(value.val[i])])
    ELSE IF value.kind = "object" THEN
        JObj([key \in DOMAIN value.val |-> parseSatsJsonValueUnwrapAny(value.val[key])])
    ELSE value

\* faulty variant: no array is unwrapped
RECURSIVE parseSatsJsonValueNoUnwrap(_)
parseSatsJsonValueNoUnwrap(value) ==
    IF value.kind \in {"null", "undefined"} THEN JNull
    ELSE IF IsPrimitive(value) THEN value
    ELSE IF value.kind = "array" THEN
        JArr([i \in DOMAIN value.val |-> parseSatsJsonValueNoUnwrap(value.val[i])])
    ELSE IF value.kind = "object" THEN
        JObj([key \in DOMAIN value.val |-> parseSatsJsonValueNoUnwrap(value.val[key])])
    ELSE value

\* faulty variant: only null decodes to null, an absent value stays absent
RECURSIVE parseSatsJsonValueAbsentKept(_)
parseSatsJsonValueAbsentKept(value) ==
    IF value.kind = "null" THEN JNull
    ELSE IF value.kind = "undefined" \/ IsPrimitive(value) THEN value
    ELSE IF value.kind = "array" THEN
        IF Len(value.val) = 1 /\ IsPrimitive(value.val[1]) THEN value.val[1]
        ELSE JArr([i \in DOMAIN value.val |-> parseSatsJsonValueAbsentKept(value.val[i])])
    ELSE IF value.kind = "object" THEN
        JObj([key \in DOMAIN value.val |-> parseSatsJsonValueAbsentKept(value.val[key])])
    ELSE value

RECURSIVE parseSatsJsonValue(_)
parseSatsJsonValue(value) ==
    IF value.kind \in {"null", "undefined"} THEN JNull
    ELSE IF IsPrimitive(value) THEN value
    ELSE IF value.kind = "array" THEN
        IF Len(value.val) = 1 /\ IsPrimitive(value.val[1]) THEN value.val[1]
        ELSE JArr([i \in DOMAIN value.val |-> parseSatsJsonValue(value.val[i])])
    ELSE IF value.kind = "object" THEN
        JObj([key \in DOMAIN value.val |-> parseSatsJsonValue(value.val[key])])
    ELSE value

\* obj[key] = v
Put(obj, key, v) == [k \in DOMAIN obj \cup {key} |-> IF k = key THEN v ELSE obj[k]]

\* faulty variant: a value under a column typed "struct" is stored undecoded
RECURSIVE RowLoopByType(_, _, _, _)
RowLoopByType(row, cols, index, obj) ==
    IF index > Len(row) THEN obj
    ELSE RowLoopByType(row, cols, index + 1,
                 IF index \in DOMAIN cols
                 THEN Put(obj, cols[index].name,
                          IF cols[index].type = "struct" THEN row[index]
                          ELSE parseSatsJsonValue(row[index]))
                 ELSE obj)

\* row.forEach((value, index) => {...}) from position index on
RECURSIVE RowLoop(_, _, _, _)
RowLoop(row, cols, index, obj) ==
    IF index > Len(row) THEN obj
    ELSE RowLoop(row, cols, index + 1,
                 IF index \in DOMAIN cols
                 THEN Put(obj, cols[index].name, parseSatsJsonValue(row[index]))
                 ELSE obj)

parseRowToObject(row, cols) ==
    IF row.kind # "array" THEN <<>> ELSE RowLoop(row.val, cols, 1, <<>>)

\* the inputs decoded
SeqsUpTo(S, n) == UNION {[1..k -> S] : k \in 0..n}
Primitives   == {JNum(42), JStr("a"), JBool(TRUE)}
Scalars      == Primitives \cup {JNull}
InnerScalars == {JNum(1), JStr("b"), JNull}
Nested ==
    {JArr(elems) : elems \in SeqsUpTo(InnerScalars, MaxInner)}
        \cup {JObj([f \in {"f"} |-> v]) : v \in {JNum(1), JArr(<<JNum(1)>>)}}
WireValues ==
    Scalars \cup {JUndefined} \cup Nested
        \cup {JArr(elems) : elems \in SeqsUpTo(Scalars \cup Nested, MaxLen)}
RowValues   == {JNum(7), JArr(<<JNum(17)>>), JNull}
WireRows    == {JArr(elems) : elems \in SeqsUpTo(RowValues, MaxLen + 1)}
\* column definitions as parseSchemaToColumns makes them: the schema decides
\* the names (equal names included) and the type tags
ColumnDefs  == {[name |-> n, type |-> t] : n \in {"id", "joined"}, t \in {"u32", "struct"}}
ColumnLists == SeqsUpTo(ColumnDefs, MaxCols)

NotDecoded == [op |-> "none", result |-> Thrown]

DecodeIdle ==
    /\ wire = JNull
    /\ columns = <<>>
    /\ decoded = NotDecoded

CacheIdle ==
    /\ cache = Null
    /\ now = 0
    /\ cacheTtlMinutes = 10
    /\ calls = [c \in Callers |-> IdleCall]
    /\ cleared = "no"
    /\ lastWriter = "none"

\* a page that is not mounted, a route that handles no request
NotMounted == [mounted |-> FALSE]
NoRequest  == [pc |-> "none"]

PortalIdle ==
    /\ backupPage = NotMounted
    /\ queryBuilder = NotMounted
    /\ tablePage = NotMounted
    /\ bulk = NoRequest
    /\ auth = NoRequest
    /\ health = NoRequest

NotResolved == [by |-> "none", result |-> Thrown]

ResolveIdle ==
    /\ descriptor = Null
    /\ typespace = <<>>
    /\ resolved = NotResolved

NotAnswered == [status |-> 0]

QueryIdle ==
    /\ query = [sql |-> "", maxRows |-> 10000, hasAuthToken |-> FALSE, dbStatus |-> 200,
                errorText |-> "other", results |-> <<>>]
    /\ response = NotAnswered

InitDecode ==
    /\ CacheIdle /\ ResolveIdle /\ QueryIdle /\ PortalIdle
    /\ \/ wire \in WireValues /\ columns = <<>>
       \/ wire \in WireRows /\ columns \in ColumnLists
    /\ decoded = NotDecoded

\* parseSatsJsonValue(value) on the input
DecodeValue ==
    /\ decoded' = [op |-> "value", result |-> Ok(parseSatsJsonValue(wire))]
    /\ UNCHANGED <<wire, columns, cacheVars, resolveVars, queryVars, portalVars>>

\* parseSatsJsonValue applied to a value it returned
DecodeValueAgain ==
    /\ decoded.op \in {"value", "again"}
    /\ decoded' = [op |-> "again", result |-> Ok(parseSatsJsonValue(decoded.result.value))]
    /\ UNCHANGED <<wire, columns, cacheVars, resolveVars, queryVars, portalVars>>

\* parseRowToObject(row, columns) on the input (line 122)
DecodeRow ==
    /\ decoded' = [op |-> "row", result |-> Ok(parseRowToObject(wire, columns))]
    /\ UNCHANGED <<wire, columns, cacheVars, resolveVars, queryVars, portalVars>>

NextDecode == DecodeValue \/ DecodeValueAgain \/ DecodeRow

SpecDecode == InitDecode /\ [][NextDecode]_vars

(***************************************************************************)
(* Type descriptors -> type tags.  The repository resolves a descriptor in *)
(* three places: the http client (formatAlgebraicType above, used by table *)
(* discovery), the SQL query route and the reducers route.                 *)
(***************************************************************************)
MaxRef == 2    \* largest index of a Ref descriptor resolved

\* formatAlgebraicType of the SQL query route (it has no U256 line)
formatAlgebraicTypeSql(algType) ==
    IF IsNull(algType) THEN "unknown"
    ELSE IF PrimitiveTag(algType) \notin {"", "u256"} THEN PrimitiveTag(algType)
    ELSE IF Has(algType, "Product") THEN "struct"
    ELSE IF Has(algType, "Sum") THEN "enum"
    ELSE "complex"

\* parseAlgebraicType of the reducers route
parseAlgebraicType(algebraicType) ==
    IF IsNull(algebraicType) THEN "unknown"
    ELSE IF PrimitiveTag(algebraicType) \notin {"", "u256"} THEN PrimitiveTag(algebraicType)
    ELSE IF Has(algebraicType, "Ref") THEN "type_" \o ToString(algebraicType.Ref)
    ELSE IF Has(algebraicType, "Array") THEN "array"
    ELSE IF Has(algebraicType, "Map") THEN "map"
    ELSE "unknown"

\* `col_${index}`, index counted from 0
DefaultColumnName(i) == "col_" \o ToString(i - 1)

\* parseSchemaToColumns of the SQL query route
parseSchemaToColumns(schema) ==
    IF IsNull(schema) \/ ~Has(schema, "elements") THEN <<>>
    ELSE [i \in DOMAIN schema.elements |->
            [ name |-> IF NameSome(schema.elements[i]) # ""
                       THEN NameSome(schema.elements[i]) ELSE DefaultColumnName(i),
              type |-> formatAlgebraicTypeSql(schema.elements[i].algebraic_type) ]]

\* the descriptors resolved
PrimitiveKinds ==
    { "U8", "U16", "U32", "U64", "U128", "U256", "I8", "I16", "I32", "I64", "I128", "I256",
      "F32", "F64", "Bool", "String" }
DurationType == ProductOf(<<Elem("__time_duration_micros__", Prim("I64"))>>)
RefTo(index) == [Ref |-> index]
Products ==
    { TimestampType, IdentityType, DurationType,
      ProductOf(<<Elem("score", Prim("I64"))>>),
      ProductOf(<<Unnamed(Prim("I64"))>>),
      ProductOf(<<>>),
      ProductOf(<<Elem("__timestamp_micros_since_unix_epoch__", Prim("I64")),
                  Elem("score", Prim("U8"))>>),
      ProductOf(<<Elem("id", Prim("U32")), Elem("joined", TimestampType)>>),
      ProductOf(<<Elem("id", Prim("U32")), Elem("name", Prim("String")),
                  Unnamed(RefTo(0))>>) }
Sums ==
    { SumOf(<<>>),
      SumOf(<<Elem("some", Prim("U8")), Elem("none", ProductOf(<<>>))>>),
      SumOf(<<Elem("__timestamp_micros_since_unix_epoch__", Prim("I64"))>>) }
Refs == {RefTo(index) : index \in 0..MaxRef}
\* neither Primitive, Product, Sum nor Ref: no descriptor at all, or an object
\* with none of their keys
OtherShapes == {Null, [Array |-> Prim("U8")], [Bogus |-> <<>>]}
Descriptors ==
    {Prim(kind) : kind \in PrimitiveKinds} \cup Products \cup Sums \cup Refs \cup OtherShapes
        \cup {[Product |-> [fields |-> <<>>]]}
Typespaces ==
    { <<>>,
      <<SumOf(<<Elem("a", Prim("U8"))>>)>>,
      <<ProductOf(<<Elem("x", Prim("F32"))>>), TimestampType>> }

\* getTableSchema line 197: this.formatAlgebraicType(col.algebraic_type)
ClientFormatType ==
    /\ resolved' = [by |-> "client", result |-> Ok(<<formatAlgebraicType(descriptor)>>)]
    /\ UNCHANGED <<descriptor, typespace, cacheVars, decodeVars, queryVars, portalVars>>

\* parseSchemaToColumns line 166: formatAlgebraicType(element.algebraic_type)
SqlFormatType ==
    /\ resolved' = [by |-> "sql", result |-> Ok(<<formatAlgebraicTypeSql(descriptor)>>)]
    /\ UNCHANGED <<descriptor, typespace, cacheVars, decodeVars, queryVars, portalVars>>

\* GET /api/reducers line 112: parseAlgebraicType(param.algebraic_type)
ReducersParseType ==
    /\ resolved' = [by |-> "reducers", result |-> Ok(<<parseAlgebraicType(descriptor)>>)]
    /\ UNCHANGED <<descriptor, typespace, cacheVars, decodeVars, queryVars, portalVars>>

\* POST /api/sql/query line 119 on a result whose schema is the product type
\* of the descriptor (no schema when the descriptor is no Product)
ParseSchemaToColumns ==
    /\ LET schema == IF ~IsNull(descriptor) /\ Has(descriptor, "Product")
                     THEN descriptor.Product ELSE Null
       IN  resolved' = [by |-> "sqlColumns", result |-> Ok(parseSchemaToColumns(schema))]
    /\ UNCHANGED <<descriptor, typespace, cacheVars, decodeVars, queryVars, portalVars>>

\* getTableSchema lines 189-199 on a table whose product type is the descriptor
GetTableSchemaColumns ==
    /\ resolved' =
         [ by |-> "tableColumns",
           result |-> IF IsNull(descriptor) \/ ~Has(descriptor, "Product")
                            \/ ~Has(descriptor.Product, "elements")
                      THEN Thrown
                      ELSE Ok([i \in DOMAIN descriptor.Product.elements |->
                                  SchemaColumn(descriptor.Product.elements[i])]) ]
    /\ UNCHANGED <<descriptor, typespace, cacheVars, decodeVars, queryVars, portalVars>>

(***************************************************************************)
(* SQL query route: POST /api/sql/query                                    *)
(***************************************************************************)
MaxResultRows == 2    \* most rows in a statement result

MaxRowsChoices == {-1, 0, 1, 10000}     \* maxRows of the request (default 10000)
SqlChoices == {"", "select", "insert", "delete"}  \* how the sql starts, "" when missing
DbStatusChoices == {200, 400, 500}          \* status of the database's answer
ErrorTextChoices == {"not authorized", "not supported", "other"}   \* what its error text includes

\* the number 1700000000000000 (microseconds) does not fit 32 bits and is
\* carried in units of 10^6; the route does no arithmetic on a value
PlayersSchema == [elements |-> <<Elem("id", Prim("U32")), Elem("joined", TimestampType)>>]
PlayersRow    == JArr(<<JNum(7), JArr(<<JNum(1700000000)>>)>>)

QuerySchemas ==
    { PlayersSchema,
      [elements |-> <<Unnamed(Prim("U32")), Elem("joined", Prim("I64"))>>] }
QueryRows == {PlayersRow, JArr(<<JNum(8), JNull>>), JArr(<<JNum(9)>>)}
StatementResults ==
    {[schema |-> schema, rows |-> rows] :
        schema \in QuerySchemas, rows \in SeqsUpTo(QueryRows, MaxResultRows)}
Queries ==
    {[sql |-> sql, maxRows |-> maxRows, hasAuthToken |-> hasAuthToken, dbStatus |-> dbStatus,
      errorText |-> errorText, results |-> results] :
        sql \in SqlChoices, maxRows \in MaxRowsChoices, hasAuthToken \in BOOLEAN,
        dbStatus \in DbStatusChoices, errorText \in ErrorTextChoices,
        results \in {<<>>} \cup {<<r>> : r \in StatementResults}}

\* allRows.slice(0, maxRows)
\* faulty variant: one row more than asked for
SliceOneMore(allRows, maxRows) ==
    IF maxRows + 1 < Len(allRows) THEN SubSeq(allRows, 1, maxRows + 1) ELSE allRows

Slice(allRows, maxRows) ==
    IF maxRows < Len(allRows) THEN SubSeq(allRows, 1, maxRows) ELSE allRows

\* the body answered for the first statement result (lines 116-135)
RowsResponse(firstResult, maxRows) ==
    LET cols == parseSchemaToColumns(firstResult.schema)
        allRows == [i \in DOMAIN firstResult.rows |->
                        parseRowToObject(firstResult.rows[i], cols)]
        totalRows == Len(allRows)
        rows == IF maxRows > 0 THEN Slice(allRows, maxRows) ELSE allRows
    IN  [ status |-> 200, columns |-> cols, rows |-> rows, totalRows |-> totalRows,
          fetchedRows |-> Len(rows), truncated |-> maxRows > 0 /\ totalRows > maxRows ]

\* the body answered when the database's response is not ok (lines 47-90)
ErrorResponse(q) ==
    IF q.sql \in {"delete", "insert"} /\ q.errorText = "not authorized" /\ ~q.hasAuthToken
    THEN [status |-> 401, error |-> "Authentication required"]
    ELSE IF q.sql = "delete" /\ q.errorText = "not supported"
    THEN [status |-> 400, error |-> "DELETE not supported"]
    ELSE [status |-> q.dbStatus, error |-> "SpacetimeDB error"]

\* the handler: 400 without sql, the database's error, the DELETE answer, the
\* empty answer, the rows of the first statement result
SqlQuery ==
    /\ response = NotAnswered
    /\ response' =
         IF query.sql = "" THEN [status |-> 400, error |-> "SQL query is required"]
         ELSE IF query.dbStatus # 200 THEN ErrorResponse(query)
         ELSE IF query.sql = "delete"
           THEN [status |-> 200, success |-> TRUE, result |-> query.results]
         ELSE IF query.results = <<>>
           THEN [ status |-> 200, columns |-> <<>>, rows |-> <<>>, totalRows |-> 0,
                  fetchedRows |-> 0, truncated |-> FALSE ]
         ELSE RowsResponse(query.results[1], query.maxRows)
    /\ UNCHANGED <<query, cacheVars, decodeVars, resolveVars, portalVars>>

InitResolve ==
    /\ CacheIdle /\ DecodeIdle /\ QueryIdle /\ PortalIdle
    /\ descriptor \in Descriptors
    /\ typespace \in Typespaces
    /\ resolved = NotResolved

NextResolve ==
    \/ ClientFormatType
    \/ SqlFormatType
    \/ ReducersParseType
    \/ ParseSchemaToColumns
    \/ GetTableSchemaColumns

SpecResolve == InitResolve /\ [][NextResolve]_vars

InitQuery ==
    /\ CacheIdle /\ DecodeIdle /\ ResolveIdle /\ PortalIdle
    /\ query \in Queries
    /\ response = NotAnswered

NextQuery == SqlQuery

SpecQuery == InitQuery /\ [][NextQuery]_vars

Init == InitCache /\ DecodeIdle /\ ResolveIdle /\ QueryIdle /\ PortalIdle

Next ==
    \/ \E c \in Callers, forceRefresh \in BOOLEAN : GetAllTables(c, forceRefresh)
    \/ \E c \in Callers : PostTables(c)
    \/ \E c \in Callers, resps \in Responses : GetAllTablesList(c, resps)
    \/ \E c \in Callers, resps \in Responses : GetAllTablesDiscover(c, resps)
    \/ \E c \in Callers, tableName \in TableNameArgs, forceRefresh \in BOOLEAN :
          GetTable(c, tableName, forceRefresh)
    \/ \E c \in Callers, resps \in Responses : GetTableDiscover(c, resps)
    \/ ClearCache
    \/ Tick

Spec == Init /\ [][Next]_vars

(***************************************************************************)
(* Schema cache: properties                                                *)
(***************************************************************************)
\* caller c starts a call in this step
Starts(c) == Free(c) /\ calls'[c] # calls[c]
\* caller c's call resumes from an await in this step
Resumes(c) == ~Free(c) /\ (calls'[c].pc # calls[c].pc \/ calls'[c].idx # calls[c].idx)
\* caller c's getAllTables rediscovery writes the cache and returns in this step
Completes(c) == Discovering(c) /\ calls'[c].pc = "done"

NamesOf(tables) == [i \in DOMAIN tables |-> tables[i].name]

RECURSIVE OkNames(_)
OkNames(tried) ==
    IF tried = <<>> THEN <<>>
    ELSE (IF Head(tried).ok THEN <<Head(tried).name>> ELSE <<>>) \o OkNames(Tail(tried))

ContainsTable(tables, tableName) == \E i \in DOMAIN tables : tables[i].name = tableName

\* C1: a getAllTables rediscovery whose table listing (schema fetch) failed
\* leaves the cache entry exactly as it was before the call: same tables and
\* cachedAt, or absent; it is never replaced by an empty entry.
C1_FailedListingKeepsCache ==
    [][\A c \in Callers :
         (Completes(c) /\ calls[c].pc = "list" /\ ~calls'[c].listOk) => cache' = cache]_vars

\* C2: getAllTables(forceRefresh) answers from the cache, calling no
\* collaborator, iff forceRefresh is false and an entry exists with
\* now - cachedAt < ttl; otherwise it lists and discovers every table, leaves
\* the entry alone until it replaces it whole with the new tables and a fresh
\* cachedAt, and returns that new set.
C2_CachedIffValid ==
    [][\A c \in Callers :
         /\ (Starts(c) /\ calls'[c].op = "getAllTables") =>
              /\ (calls'[c].served = "cache") <=>
                    (~calls'[c].forceRefresh /\ ~IsNull(cache)
                        /\ now - cache.cachedAt < cache.ttl)
              /\ (calls'[c].served = "cache") =>
                    /\ calls'[c].pc = "done"
                    /\ calls'[c].result = Ok(cache.tables)
                    /\ ~calls'[c].listed /\ calls'[c].tried = <<>>
                    /\ cache' = cache
              /\ (calls'[c].served # "cache") =>
                    /\ calls'[c].served = "full" /\ calls'[c].pc = "list"
                    /\ calls'[c].listed
         /\ (Discovering(c) /\ Resumes(c)) =>
              IF calls'[c].pc = "done"
              THEN /\ calls'[c].result.ok
                   /\ [i \in DOMAIN calls'[c].tried |-> calls'[c].tried[i].name]
                        = calls'[c].tableNames
                   /\ cache' = [ tables |-> calls'[c].result.value, cached |-> TRUE,
                                 cachedAt |-> now', ttl |-> cacheTtlMinutes * 60 * 1000 ]
              ELSE cache' = cache]_vars

\* C2 witness: a call answered from an entry that has aged but not expired
C2_Witness ==
    \E c \in Callers :
        /\ calls[c].op = "getAllTables" /\ calls[c].served = "cache"
        /\ ~IsNull(cache) /\ calls[c].result = Ok(cache.tables)
        /\ cache.tables # <<>> /\ now > cache.cachedAt

\* C3 as claimed: for every configured TTL, getCacheStatus().cached is true
\* right after a successful getAllTables(true), false once more than the TTL
\* has elapsed since the last refresh, and false right after clearCache().
C3_StatusLifeCycleAnyTtl ==
    [][/\ \A c \in Callers :
            (Completes(c) /\ calls[c].forceRefresh /\ calls'[c].listOk)
                => getCacheStatus(cache', now').cached
       /\ (~IsNull(cache') /\ now' - cache'.cachedAt > cache'.ttl)
            => ~getCacheStatus(cache', now').cached
       /\ (cleared' = "yes") => ~getCacheStatus(cache', now').cached]_vars

\* C3 amended: the same, with cached true right after getAllTables(true) only
\* when the configured TTL is greater than zero.
C3_StatusLifeCycle ==
    [][/\ \A c \in Callers :
            (Completes(c) /\ calls[c].forceRefresh /\ cacheTtlMinutes > 0)
                => getCacheStatus(cache', now').cached
       /\ (~IsNull(cache') /\ now' - cache'.cachedAt > cache'.ttl)
            => ~getCacheStatus(cache', now').cached
       /\ (cleared' = "yes") => ~getCacheStatus(cache', now').cached]_vars

\* C3 witness: a forced refresh has returned, more than the positive TTL has
\* elapsed since, and the status reports the entry as not cached
C3_Witness ==
    \E c \in Callers :
        /\ calls[c].op = "getAllTables" /\ calls[c].pc = "done" /\ calls[c].forceRefresh
        /\ lastWriter = c /\ ~IsNull(cache) /\ cache.tables = calls[c].result.value
        /\ cache.ttl > 0 /\ now - cache.cachedAt > cache.ttl
        /\ ~getCacheStatus(cache, now).cached

C5_PartialFailureSkips ==
    [][\A c \in Callers :
         (Completes(c) /\ calls'[c].listOk) =>
            /\ calls'[c].result.ok
            /\ [i \in DOMAIN calls'[c].tried |-> calls'[c].tried[i].name]
                 = calls'[c].tableNames
            /\ NamesOf(calls'[c].result.value) = OkNames(calls'[c].tried)
            /\ ~IsNull(cache') /\ cache'.tables = calls'[c].result.value]_vars

\* C5 witness: a rediscovery returned two tables although the discovery of a
\* listed table between them failed
C5_Witness ==
    \E c \in Callers :
        /\ calls[c].op = "getAllTables" /\ calls[c].pc = "done" /\ calls[c].listOk
        /\ Len(calls[c].tried) = 3 /\ ~calls[c].tried[2].ok
        /\ NamesOf(calls[c].result.value) = <<calls[c].tried[1].name, calls[c].tried[3].name>>

\* C6: getTable is answered from the cache exactly when forceRefresh is
\* false, the entry is valid and it holds a table of that name; otherwise it
\* discovers that one table and never lists the tables; in every case the
\* cache entry is left unchanged.
C6_GetTableFrame ==
    [][\A c \in Callers :
         /\ (Starts(c) /\ calls'[c].op = "getTable") =>
              /\ (calls'[c].served = "cache") <=>
                    (~calls'[c].forceRefresh /\ ~IsNull(cache)
                        /\ now - cache.cachedAt < cache.ttl
                        /\ ContainsTable(cache.tables, calls'[c].tableName))
              /\ (calls'[c].served = "cache") =>
                    /\ calls'[c].pc = "done" /\ calls'[c].result.ok
                    /\ Len(calls'[c].result.value) = 1
                    /\ calls'[c].result.value[1].name = calls'[c].tableName
                    /\ \E i \in DOMAIN cache.tables : cache.tables[i] = calls'[c].result.value[1]
              /\ (calls'[c].served # "cache") =>
                    calls'[c].served = "single" /\ calls'[c].pc = "single"
              /\ ~calls'[c].listed
              /\ cache' = cache
         /\ (calls[c].op = "getTable" /\ Resumes(c)) =>
              /\ calls'[c].pc = "done" /\ ~calls'[c].listed
              /\ calls'[c].tried = <<[name |-> calls[c].tableName, ok |-> calls'[c].result.ok]>>
              /\ cache' = cache]_vars

\* C6 witness: a forced getTable discovered its table while the cache held a
\* valid entry with that table
C6_Witness ==
    \E c \in Callers :
        /\ calls[c].op = "getTable" /\ calls[c].pc = "done" /\ calls[c].forceRefresh
        /\ calls[c].served = "single" /\ calls[c].result.ok
        /\ ~IsNull(cache) /\ isCacheValid(cache, now)
        /\ ContainsTable(cache.tables, calls[c].tableName)

\* C7: once two getAllTables(true) calls that ran concurrently have both
\* returned, the cache holds exactly the tables discovered by the call that
\* wrote last, and each call has returned the tables it discovered itself.
C7_LaterWriteWins ==
    \A c \in Callers : \A d \in Callers \ {c} :
        ( /\ calls[c].op = "getAllTables" /\ calls[c].pc = "done"
          /\ calls[c].forceRefresh /\ calls[c].overlapped
          /\ calls[d].op = "getAllTables" /\ calls[d].pc = "done"
          /\ calls[d].forceRefresh /\ calls[d].overlapped
          /\ lastWriter = c /\ ~IsNull(cache) )
        => /\ cache.tables = calls[c].result.value
           /\ NamesOf(calls[c].result.value) = OkNames(calls[c].tried)
           /\ NamesOf(calls[d].result.value) = OkNames(calls[d].tried)

\* C7 witness: two concurrent forced calls returned different sets and the
\* cache holds the set of the one that wrote last
C7_Witness ==
    \E c \in Callers : \E d \in Callers \ {c} :
        /\ calls[c].op = "getAllTables" /\ calls[c].pc = "done"
        /\ calls[c].forceRefresh /\ calls[c].overlapped
        /\ calls[d].op = "getAllTables" /\ calls[d].pc = "done"
        /\ calls[d].forceRefresh /\ calls[d].overlapped
        /\ lastWriter = c /\ ~IsNull(cache)
        /\ calls[c].result.value # <<>> /\ calls[d].result.value # <<>>
        /\ calls[c].result.value # calls[d].result.value
        /\ cache.tables = calls[c].result.value

(***************************************************************************)
(* Decoder: properties (checked under SpecDecode)                          *)
(***************************************************************************)
\* C8: decodeRow fails with a RowShapeError whenever the raw row's length
\* differs from the number of columns, too few or too many values alike.
C8_RowShapeError ==
    (decoded.op = "row" /\ wire.kind = "array" /\ Len(wire.val) # Len(columns))
        => ~decoded.result.ok

\* C9: decodeValue unwraps every one-element array whose sole element is a
\* string, number or boolean to that element.
C9_UnwrapSinglePrimitive ==
    (decoded.op = "value" /\ wire.kind = "array" /\ Len(wire.val) = 1
        /\ IsPrimitive(wire.val[1]))
        => (decoded.result.ok /\ decoded.result.value = wire.val[1])

\* C9 witness: [true] has been decoded to true
C9_Witness ==
    /\ decoded.op = "value" /\ wire = JArr(<<JBool(TRUE)>>)
    /\ decoded.result.value = JBool(TRUE)

\* C10: every other array decodes to an array of the same length whose i-th
\* element is the decoded i-th element; an array of two or more primitives
\* decodes to itself.
C10_ArrayElementwise ==
    (decoded.op = "value" /\ wire.kind = "array"
        /\ ~(Len(wire.val) = 1 /\ IsPrimitive(wire.val[1])))
        => /\ decoded.result.ok
           /\ decoded.result.value.kind = "array"
           /\ Len(decoded.result.value.val) = Len(wire.val)
           /\ \A i \in DOMAIN wire.val :
                decoded.result.value.val[i] = parseSatsJsonValue(wire.val[i])
           /\ (Len(wire.val) >= 2 /\ \A i \in DOMAIN wire.val : IsPrimitive(wire.val[i]))
                => decoded.result.value = wire

\* C10 witness: [[1, "b"], [1]] has been decoded to [[1, "b"], 1]
C10_Witness ==
    /\ decoded.op = "value"
    /\ wire = JArr(<<JArr(<<JNum(1), JStr("b")>>), JArr(<<JNum(1)>>)>>)
    /\ decoded.result.value = JArr(<<JArr(<<JNum(1), JStr("b")>>), JNum(1)>>)

\* C11: every string, number and boolean decodes to itself, and decoding the
\* decoded value again gives the same; null and an absent value decode to null.
C11_ScalarsFixed ==
    (decoded.op \in {"value", "again"}) =>
        /\ IsPrimitive(wire) => (decoded.result.ok /\ decoded.result.value = wire)
        /\ (wire.kind \in {"null", "undefined"}) => decoded.result = Ok(JNull)

\* C11 witness: the string "a" has been decoded, and the result decoded again
C11_Witness ==
    /\ decoded.op = "again" /\ wire = JStr("a")
    /\ decoded.result = Ok(JStr("a"))

\* two column lists that differ at most in their type tags
SameNames(cols, others) ==
    /\ Len(cols) = Len(others)
    /\ \A i \in DOMAIN cols : cols[i].name = others[i].name

\* C12 as claimed: for a row as long as the column list, the decoded row maps
\* the name of column i to the decoded i-th value, for every position i, and
\* it is the same for every column list with these names, whatever the types.
C12_ZipsEveryPosition ==
    (decoded.op = "row" /\ wire.kind = "array" /\ Len(wire.val) = Len(columns)) =>
        /\ decoded.result.ok
        /\ DOMAIN decoded.result.value = {columns[i].name : i \in DOMAIN columns}
        /\ \A i \in DOMAIN columns :
              decoded.result.value[columns[i].name] = parseSatsJsonValue(wire.val[i])
        /\ \A others \in ColumnLists :
              SameNames(columns, others) => parseRowToObject(wire, others) = decoded.result.value

\* C12 amended: the same for every position i whose column name is not
\* repeated at a later position (of columns that share a name the last one
\* gives the value); with distinct column names, for every position.
C12_ZipsLastOfEachName ==
    (decoded.op = "row" /\ wire.kind = "array" /\ Len(wire.val) = Len(columns)) =>
        /\ decoded.result.ok
        /\ DOMAIN decoded.result.value = {columns[i].name : i \in DOMAIN columns}
        /\ \A i \in DOMAIN columns :
              (\A j \in DOMAIN columns : j > i => columns[j].name # columns[i].name)
                 => decoded.result.value[columns[i].name] = parseSatsJsonValue(wire.val[i])
        /\ \A others \in ColumnLists :
              SameNames(columns, others) => parseRowToObject(wire, others) = decoded.result.value

\* C12 witness: [7, [17]] has been decoded under the columns id: u32 and
\* joined: struct to {id: 7, joined: 17}
C12_Witness ==
    /\ decoded.op = "row"
    /\ wire = JArr(<<JNum(7), JArr(<<JNum(17)>>)>>)
    /\ columns = <<[name |-> "id", type |-> "u32"], [name |-> "joined", type |-> "struct"]>>
    /\ decoded.result = Ok([id |-> JNum(7), joined |-> JNum(17)])

(***************************************************************************)
(* Type resolution: properties (checked under SpecResolve)                 *)
(***************************************************************************)
\* the three places that turn one descriptor into a tag
TypeResolvers == {"client", "sql", "reducers"}

\* the resolver of each place
TagBy(by, d) ==
    CASE by = "client" -> formatAlgebraicType(d)
      [] by = "sql"    -> formatAlgebraicTypeSql(d)
      [] OTHER         -> parseAlgebraicType(d)

LowercaseName(kind) ==
    CASE kind = "U8" -> "u8"     [] kind = "U16" -> "u16"   [] kind = "U32" -> "u32"
      [] kind = "U64" -> "u64"   [] kind = "U128" -> "u128" [] kind = "U256" -> "u256"
      [] kind = "I8" -> "i8"     [] kind = "I16" -> "i16"   [] kind = "I32" -> "i32"
      [] kind = "I64" -> "i64"   [] kind = "I128" -> "i128" [] kind = "I256" -> "i256"
      [] kind = "F32" -> "f32"   [] kind = "F64" -> "f64"   [] kind = "Bool" -> "bool"
      [] kind = "String" -> "string"

IsProduct(d) == ~IsNull(d) /\ Has(d, "Product") /\ Has(d.Product, "elements")
IsRef(d) == ~IsNull(d) /\ Has(d, "Ref")
Engaged(elem) == Has(elem.name, "some")

\* C13: every primitive kind of the closed set resolves to its lowercase name,
\* in each of the three resolvers; none falls through to a fallback tag.
C13_PrimitiveLowercase ==
    \A kind \in PrimitiveKinds :
        (resolved.by \in TypeResolvers /\ Has(descriptor, kind))
            => resolved.result = Ok(<<LowercaseName(kind)>>)

\* C14: a Ref(i) with i inside the typespace resolves to the tag of
\* typespace[i].
C14_RefTransparent ==
    (resolved.by \in TypeResolvers /\ IsRef(descriptor)
        /\ descriptor.Ref + 1 \in DOMAIN typespace)
        => resolved.result = Ok(<<TagBy(resolved.by, typespace[descriptor.Ref + 1])>>)

\* C15: the resolution of a Ref(i) with i outside the typespace fails; it
\* returns no tag.
C15_RefOutOfBoundsFails ==
    (resolved.by \in TypeResolvers /\ IsRef(descriptor)
        /\ descriptor.Ref + 1 \notin DOMAIN typespace)
        => ~resolved.result.ok

\* the tag C16 names for a Product with these elements
SentinelTag(elements) ==
    IF Len(elements) = 1 /\ Engaged(elements[1])
    THEN CASE elements[1].name.some = "__timestamp_micros_since_unix_epoch__" -> "Timestamp"
           [] elements[1].name.some = "__identity__"                          -> "Identity"
           [] elements[1].name.some = "__time_duration_micros__"              -> "Duration"
           [] OTHER                                                           -> "struct"
    ELSE "struct"

\* C16: a Product whose one element is named by the timestamp, identity or
\* duration sentinel resolves to "Timestamp", "Identity" or "Duration"; every
\* other Product resolves to "struct"; in the http client and in the SQL route.
C16_SentinelProducts ==
    (resolved.by \in {"client", "sql"} /\ IsProduct(descriptor))
        => resolved.result = Ok(<<SentinelTag(descriptor.Product.elements)>>)

\* C17: every Sum resolves to "enum", whatever its variants, in each of the
\* three resolvers.
C17_SumIsEnum ==
    (resolved.by \in TypeResolvers /\ ~IsNull(descriptor) /\ Has(descriptor, "Sum"))
        => resolved.result = Ok(<<"enum">>)

\* C18 as claimed: a descriptor that is none of Primitive, Product, Sum or Ref
\* resolves to "unknown" and raises no error; in the http client and in the
\* SQL route.
C18_OtherShapesUnknown ==
    (resolved.by \in {"client", "sql"} /\ descriptor \in OtherShapes)
        => resolved.result = Ok(<<"unknown">>)

\* C18 amended: such a descriptor raises no error; a missing descriptor
\* resolves to "unknown", an object of an unrecognised shape to "complex".
C18_OtherShapesFallback ==
    (resolved.by \in {"client", "sql"} /\ descriptor \in OtherShapes)
        => resolved.result = Ok(<<IF IsNull(descriptor) THEN "unknown" ELSE "complex">>)

\* C18 witness: the http client has resolved {Array: {U8: []}} to "complex"
C18_Witness ==
    /\ resolved.by = "client" /\ descriptor = [Array |-> Prim("U8")]
    /\ resolved.result = Ok(<<"complex">>)

\* C19: on both paths that make column descriptors, the SQL query route and
\* table discovery, the column at 0-based position i is named by its engaged
\* name, or col_<i> when the name is disengaged.
C19_ColumnNames ==
    (resolved.by \in {"sqlColumns", "tableColumns"} /\ IsProduct(descriptor)) =>
        /\ resolved.result.ok
        /\ Len(resolved.result.value) = Len(descriptor.Product.elements)
        /\ \A i \in DOMAIN descriptor.Product.elements :
              resolved.result.value[i].name =
                 IF Engaged(descriptor.Product.elements[i])
                 THEN descriptor.Product.elements[i].name.some
                 ELSE "col_" \o ToString(i - 1)

(***************************************************************************)
(* SQL query route: properties (checked under SpecQuery)                   *)
(***************************************************************************)
\* C20: for the result of a SELECT whose schema is id: U32, joined: Product
\* of the one field __timestamp_micros_since_unix_epoch__: I64 and whose one
\* row is [7, [1700000000000000]], the route answers the column types
\* "u32", "Timestamp" and the row {id: 7, joined: 1700000000000000}.
C20_EndToEnd ==
    (response.status = 200 /\ query.sql = "select" /\ query.results # <<>>
        /\ query.results[1] = [schema |-> PlayersSchema, rows |-> <<PlayersRow>>])
        => /\ [i \in DOMAIN response.columns |-> response.columns[i].type]
                = <<"u32", "Timestamp">>
           /\ [i \in DOMAIN response.columns |-> response.columns[i].name]
                = <<"id", "joined">>
           /\ \A i \in DOMAIN response.rows :
                 response.rows[i] = [id |-> JNum(7), joined |-> JNum(1700000000)]

(***************************************************************************)
(* BackupPage: the restore dialog                                          *)
(***************************************************************************)
MaxBackupId == 3    \* the backups listed have the ids 0..MaxBackupId
MaxCalls    == 2    \* restore_backup calls followed

NullId == -1        \* selectedBackupId = null

BackupIds == 0..MaxBackupId
\* backup.is_complete: the last backup listed is still in progress
IsComplete(backupId) == backupId # MaxBackupId
\* what the user may type into the confirmation input
ConfirmTexts == {"", "DELETE_ALL_DATA", "delete_all_data", "DELETE_ALL_DATA "}

\* the useState initial values (lines 76-79)
BackupPageMounted ==
    [ mounted |-> TRUE, restoreDialogOpen |-> FALSE, selectedBackupId |-> NullId,
      confirmText |-> "", restoring |-> FALSE,
      calls |-> <<>>,        \* the bodies posted to /api/reducers/call for restore_backup
      pressed |-> NullId ]   \* history: the backup whose Restore button was pressed last

\* faulty variant: the confirmation text typed before is kept
initiateRestoreKeepText(page, backupId) ==
    [page EXCEPT !.selectedBackupId = backupId, !.restoreDialogOpen = TRUE]

initiateRestore(page, backupId) ==
    [page EXCEPT !.selectedBackupId = backupId, !.confirmText = "",
                 !.restoreDialogOpen = TRUE]

\* restoreBackup up to its await (lines 234-251)
restoreBackup(page) ==
    IF page.confirmText # "DELETE_ALL_DATA" THEN page
    ELSE IF page.selectedBackupId = NullId \/ page.selectedBackupId = 0 THEN page
    ELSE [page EXCEPT !.restoring = TRUE,
                      !.calls = Append(@, [ reducer |-> "restore_backup",
                                            params |-> <<page.selectedBackupId,
                                                         page.confirmText>> ])]

InitBackup ==
    /\ CacheIdle /\ DecodeIdle /\ ResolveIdle /\ QueryIdle
    /\ backupPage = BackupPageMounted
    /\ queryBuilder = NotMounted /\ tablePage = NotMounted
    /\ bulk = NoRequest /\ auth = NoRequest /\ health = NoRequest

BackupFrame ==
    UNCHANGED <<cacheVars, decodeVars, resolveVars, queryVars,
                queryBuilder, bulk, auth, health, tablePage>>

\* the Restore button of a listed backup (lines 500-508); the dialog is modal,
\* so the button is pressed only while the dialog is closed
InitiateRestore(backupId) ==
    /\ ~backupPage.restoreDialogOpen
    /\ IsComplete(backupId)
    /\ backupPage' = [initiateRestore(backupPage, backupId) EXCEPT !.pressed = backupId]
    /\ BackupFrame

\* onChange of the confirmation input (line 616)
SetConfirmText(text) ==
    /\ backupPage.restoreDialogOpen
    /\ backupPage' = [backupPage EXCEPT !.confirmText = text]
    /\ BackupFrame

\* Cancel, or the dialog's onOpenChange(false) (lines 586, 624)
CloseRestoreDialog ==
    /\ backupPage.restoreDialogOpen
    /\ backupPage' = [backupPage EXCEPT !.restoreDialogOpen = FALSE]
    /\ BackupFrame

\* the Restore Backup button (lines 629-633), pressed while it is enabled
RestoreBackup ==
    /\ backupPage.restoreDialogOpen
    /\ ~(backupPage.restoring \/ backupPage.confirmText # "DELETE_ALL_DATA")
    /\ Len(backupPage.calls) < MaxCalls
    /\ backupPage' = restoreBackup(backupPage)
    /\ BackupFrame

\* the continuation of the fetch (lines 253-266)
RestoreBackupSettled(ok) ==
    /\ backupPage.restoring
    /\ backupPage' = [backupPage EXCEPT !.restoring = FALSE,
                                        !.restoreDialogOpen = IF ok THEN FALSE ELSE @]
    /\ BackupFrame

NextBackup ==
    \/ \E backupId \in BackupIds : InitiateRestore(backupId)
    \/ \E text \in ConfirmTexts : SetConfirmText(text)
    \/ CloseRestoreDialog
    \/ RestoreBackup
    \/ \E ok \in BOOLEAN : RestoreBackupSettled(ok)

SpecBackup == InitBackup /\ [][NextBackup]_vars

\* C21: a restore_backup call is issued only when the confirmation text is
\* exactly DELETE_ALL_DATA and a backup is selected, it carries the id of the
\* backup whose Restore button was pressed last, and every opening of the
\* restore dialog leaves the confirmation text empty.
C21_RestoreNeedsConfirmation ==
    [][/\ (backupPage'.calls # backupPage.calls) =>
            /\ backupPage.confirmText = "DELETE_ALL_DATA"
            /\ backupPage.selectedBackupId # NullId
            /\ backupPage'.calls =
                 Append(backupPage.calls,
                        [ reducer |-> "restore_backup",
                          params |-> <<backupPage.pressed, "DELETE_ALL_DATA">> ])
       /\ (~backupPage.restoreDialogOpen /\ backupPage'.restoreDialogOpen)
            => backupPage'.confirmText = ""]_vars

\* C21 witness: two restores were called, for the backup pressed last each
\* time, and the dialog has been opened again with an empty confirmation
C21_Witness ==
    /\ Len(backupPage.calls) = 2
    /\ backupPage.calls[1].params[1] # backupPage.calls[2].params[1]
    /\ backupPage.restoreDialogOpen /\ backupPage.confirmText = ""
    /\ backupPage.pressed # backupPage.calls[2].params[1]

(***************************************************************************)
(* QueryBuilder component.  A statement is kept in its parts: the text is  *)
(* `${verb} ${select} FROM ${table}` followed, when there are conditions,  *)
(* by ` WHERE ` and the conditions joined by ' AND '.                      *)
(***************************************************************************)
MaxClauses == 2    \* most where-clauses in the builder at a time

\* the props: tableName and columns
BuilderTable   == "players"
BuilderColumns == <<[name |-> "id", type |-> "u32"], [name |-> "name", type |-> "string"]>>
\* operators and values the user picks and types
OperatorChoices == {"=", "IS NULL"}
ValueChoices    == {"", " ", "5"}

\* c.value.trim() !== ''
TrimmedNotEmpty(value) == value \notin {"", " "}

\* columns.find(col => col.name === column)?.type || ''
RECURSIVE ColumnType(_, _)
ColumnType(cols, column) ==
    IF cols = <<>> THEN ""
    ELSE IF Head(cols).name = column THEN Head(cols).type
    ELSE ColumnType(Tail(cols), column)

\* columnType.toLowerCase().includes('string') || ....includes('text')
NeedsQuotes(columnType) == columnType \in {"string", "text"}

\* one condition of the WHERE clause (lines 115-130); no value typed here
\* starts with or holds a quote
WhereCondition(c) ==
    IF c.operator \in {"IS NULL", "IS NOT NULL"}
    THEN c.column \o " " \o c.operator
    ELSE c.column \o " " \o c.operator \o " " \o
            (IF NeedsQuotes(ColumnType(BuilderColumns, c.column))
             THEN "'" \o c.value \o "'" ELSE c.value)

\* whereClauses.filter(...) of lines 107-112
RECURSIVE ValidClauses(_)
ValidClauses(clauses) ==
    IF clauses = <<>> THEN <<>>
    ELSE (IF Head(clauses).operator \in {"IS NULL", "IS NOT NULL"}
             \/ TrimmedNotEmpty(Head(clauses).value)
          THEN <<Head(clauses)>> ELSE <<>>) \o ValidClauses(Tail(clauses))

buildSQL(b) ==
    [ verb   |-> b.queryType,
      select |-> IF b.queryType = "DELETE" THEN "" ELSE "*",
      table  |-> BuilderTable,
      where  |-> [i \in DOMAIN ValidClauses(b.whereClauses) |->
                     WhereCondition(ValidClauses(b.whereClauses)[i])] ]

\* whereClauses.filter(c => c.id !== id)
RECURSIVE WithoutClause(_, _)
WithoutClause(clauses, id) ==
    IF clauses = <<>> THEN <<>>
    ELSE (IF Head(clauses).id # id THEN <<Head(clauses)>> ELSE <<>>)
            \o WithoutClause(Tail(clauses), id)

\* the useState initial values (lines 50-54); the columns selected stay ['*']
QueryBuilderMounted ==
    [ mounted |-> TRUE, queryType |-> "SELECT", whereClauses |-> <<>>,
      executed |-> <<>> ]   \* the statement passed to onExecute last, if any

BuilderFrame ==
    UNCHANGED <<cacheVars, decodeVars, resolveVars, queryVars,
                backupPage, bulk, auth, health, tablePage>>

InitBuilder ==
    /\ CacheIdle /\ DecodeIdle /\ ResolveIdle /\ QueryIdle
    /\ queryBuilder = QueryBuilderMounted
    /\ backupPage = NotMounted /\ tablePage = NotMounted
    /\ bulk = NoRequest /\ auth = NoRequest /\ health = NoRequest

SetQueryType(value) ==
    /\ queryBuilder' = [queryBuilder EXCEPT !.queryType = value]
    /\ BuilderFrame

\* addWhereClause: the id is a fresh random string
AddWhereClause(id) ==
    /\ Len(queryBuilder.whereClauses) < MaxClauses
    /\ \A i \in DOMAIN queryBuilder.whereClauses : queryBuilder.whereClauses[i].id # id
    /\ queryBuilder' =
         [queryBuilder EXCEPT !.whereClauses =
            Append(@, [ id |-> id, column |-> BuilderColumns[1].name,
                        operator |-> "=", value |-> "" ])]
    /\ BuilderFrame

RemoveWhereClause(id) ==
    /\ \E i \in DOMAIN queryBuilder.whereClauses : queryBuilder.whereClauses[i].id = id
    /\ queryBuilder' = [queryBuilder EXCEPT !.whereClauses = WithoutClause(@, id)]
    /\ BuilderFrame

\* updateWhereClause(id, field, value)
UpdateWhereClause(id, field, value) ==
    /\ \E i \in DOMAIN queryBuilder.whereClauses : queryBuilder.whereClauses[i].id = id
    /\ queryBuilder' =
         [queryBuilder EXCEPT !.whereClauses =
            [i \in DOMAIN @ |-> IF @[i].id = id THEN [@[i] EXCEPT ![field] = value] ELSE @[i]]]
    /\ BuilderFrame

\* handleExecute with onExecute given (lines 139-153)
HandleExecute ==
    /\ LET sql == buildSQL(queryBuilder)
       IN  IF queryBuilder.queryType = "DELETE" /\ Len(queryBuilder.whereClauses) = 0
           THEN UNCHANGED queryBuilder
           ELSE queryBuilder' = [queryBuilder EXCEPT !.executed = <<sql>>]
    /\ BuilderFrame

\* the Reset button (lines 323-328)
ResetBuilder ==
    /\ queryBuilder' = [queryBuilder EXCEPT !.queryType = "SELECT", !.whereClauses = <<>>]
    /\ BuilderFrame

NextBuilder ==
    \/ \E value \in {"SELECT", "DELETE"} : SetQueryType(value)
    \/ \E id \in 1..MaxClauses : AddWhereClause(id)
    \/ \E id \in 1..MaxClauses : RemoveWhereClause(id)
    \/ \E id \in 1..MaxClauses :
          \/ \E value \in {BuilderColumns[i].name : i \in DOMAIN BuilderColumns} :
                UpdateWhereClause(id, "column", value)
          \/ \E value \in OperatorChoices : UpdateWhereClause(id, "operator", value)
          \/ \E value \in ValueChoices : UpdateWhereClause(id, "value", value)
    \/ HandleExecute
    \/ ResetBuilder

SpecBuilder == InitBuilder /\ [][NextBuilder]_vars

\* C22: every DELETE statement passed to onExecute has a WHERE clause with at
\* least one condition.
C22_DeleteHasWhere ==
    (queryBuilder.executed # <<>> /\ queryBuilder.executed[1].verb = "DELETE")
        => queryBuilder.executed[1].where # <<>>

(***************************************************************************)
(* POST /api/sql/bulk.  A request is given by the number of its operations *)
(* and by what happens to each one when it is run.                         *)
(***************************************************************************)
MaxOps == 3    \* requests of up to this many operations are tried with every outcome

MAX_BULK_OPERATIONS == 1000

\* what running operation i comes to: the database accepts it, answers an
\* error, the fetch throws, or the operation is null so that op.sql throws
OpOutcomes == {"ok", "notOk", "exception", "nullOp"}

\* the requests: short ones with every outcome, and ones at and over the limit
\* whose operations all succeed; operations may also be no array at all
BulkRequests ==
    {[isArray |-> TRUE, count |-> count, outcomes |-> outcomes,
      transactional |-> transactional, dryRun |-> dryRun] :
        count \in 0..MaxOps, outcomes \in [1..MaxOps -> OpOutcomes],
        transactional \in BOOLEAN, dryRun \in BOOLEAN}
    \cup
    {[isArray |-> isArray, count |-> count, outcomes |-> [i \in 1..MaxOps |-> "ok"],
      transactional |-> transactional, dryRun |-> dryRun] :
        isArray \in BOOLEAN,
        count \in {MAX_BULK_OPERATIONS, MAX_BULK_OPERATIONS + 1},
        transactional \in BOOLEAN, dryRun \in BOOLEAN}

OutcomeOf(req, i) == IF i \in DOMAIN req.outcomes THEN req.outcomes[i] ELSE "ok"

\* SpacetimeHttpClient.mutate: it catches every error and resolves; error ""
\* stands for no error property
mutate(outcome) ==
    CASE outcome = "ok"    -> [success |-> TRUE, affectedRows |-> 0, error |-> ""]
      [] outcome = "notOk" -> [success |-> FALSE, affectedRows |-> 0,
                               error |-> "SpacetimeDB error"]
      [] OTHER             -> [success |-> FALSE, affectedRows |-> 0, error |-> "fetch failed"]

\* faulty variant: a failed operation never ends the loop
StopsAfterNever(result, transactional) == FALSE

\* lines 74-80: the loop is left after a failed operation in transactional mode
StopsAfter(result, transactional) ==
    ~result.success /\ result.error # "" /\ transactional

\* lines 101-106
BulkRespond(b) ==
    [b EXCEPT !.pc = "done",
              !.response = [status |-> 200, results |-> b.results, errors |-> b.errors]]

\* the for loop from position b.i up to the next `await httpClient.mutate`:
\* an operation that is null throws inside the try and is handled at once
RECURSIVE BulkLoop(_)
BulkLoop(b) ==
    IF b.i > b.request.count THEN BulkRespond(b)
    ELSE IF OutcomeOf(b.request, b.i) = "nullOp"
    THEN LET failed == [b EXCEPT !.results = Append(@, [ success |-> FALSE, affectedRows |-> 0,
                                                         error |-> "TypeError" ]),
                                 !.errors = Append(@, b.i)]
         IN  IF b.request.transactional THEN BulkRespond(failed)
             ELSE BulkLoop([failed EXCEPT !.i = @ + 1])
    ELSE [b EXCEPT !.pc = "mutate", !.sent = Append(@, b.i)]

BulkReceived(req) ==
    [ pc |-> "received", request |-> req,
      i |-> 1,             \* the loop variable, counted from 1
      results |-> <<>>, errors |-> <<>>,
      sent |-> <<>>,       \* history: the operations passed to httpClient.mutate
      response |-> [status |-> 0] ]

BulkFrame ==
    UNCHANGED <<cacheVars, decodeVars, resolveVars, queryVars,
                backupPage, queryBuilder, auth, health, tablePage>>

InitBulk ==
    /\ CacheIdle /\ DecodeIdle /\ ResolveIdle /\ QueryIdle
    /\ bulk \in {BulkReceived(req) : req \in BulkRequests}
    /\ backupPage = NotMounted /\ queryBuilder = NotMounted /\ tablePage = NotMounted
    /\ auth = NoRequest /\ health = NoRequest

\* the handler up to its first await of mutate (lines 15-66)
BulkPost ==
    /\ bulk.pc = "received"
    /\ bulk' =
         IF ~bulk.request.isArray \/ bulk.request.count = 0
         THEN [bulk EXCEPT !.pc = "done",
                           !.response = [status |-> 400, error |-> "Operations array is required"]]
         ELSE IF bulk.request.count > MAX_BULK_OPERATIONS
         THEN [bulk EXCEPT !.pc = "done",
                           !.response = [status |-> 400, error |-> "Too many operations"]]
         ELSE IF bulk.request.dryRun
         THEN [bulk EXCEPT !.pc = "done",
                           !.response = [ status |-> 200, results |-> <<>>,
                                          totalOperations |-> bulk.request.count ]]
         ELSE BulkLoop(bulk)
    /\ BulkFrame

\* the continuation of `await httpClient.mutate(op.sql, op.params)` (lines 66-81)
BulkMutateSettled ==
    /\ bulk.pc = "mutate"
    /\ LET result == mutate(OutcomeOf(bulk.request, bulk.i))
           pushed == [bulk EXCEPT !.results = Append(@, result),
                                  !.errors = IF ~result.success /\ result.error # ""
                                             THEN Append(@, bulk.i) ELSE @]
       IN  bulk' = IF StopsAfter(result, bulk.request.transactional)
                   THEN BulkRespond(pushed)
                   ELSE BulkLoop([pushed EXCEPT !.i = @ + 1])
    /\ BulkFrame

NextBulk == BulkPost \/ BulkMutateSettled

SpecBulk == InitBulk /\ [][NextBulk]_vars

\* the operations that fail, in request order
FailedOps(req) == {i \in 1..req.count : OutcomeOf(req, i) # "ok"}
\* the operations that reach the database when the loop runs through op last
SentUpTo(req, last) == {i \in 1..last : OutcomeOf(req, i) # "nullOp"}
FirstFailure(req) == CHOOSE i \in FailedOps(req) : \A j \in FailedOps(req) : i <= j

MaxAuthTicks == 2    \* the clock advances at most this many times

SessionMaxAge == 60 * 60 * 24 * 7 * 1000

TickChoices == {1, SessionMaxAge}

\* a pathname as its segments and the extension after its last dot
Pathnames ==
    { [segments |-> <<>>, ext |-> ""],
      [segments |-> <<"tables", "players">>, ext |-> ""],
      [segments |-> <<"api", "sql", "query">>, ext |-> ""],
      [segments |-> <<"login">>, ext |-> ""],
      [segments |-> <<"unauthorized">>, ext |-> ""],
      [segments |-> <<"api", "login">>, ext |-> ""],
      [segments |-> <<"api", "logout">>, ext |-> ""],
      [segments |-> <<"api", "session">>, ext |-> ""],
      [segments |-> <<"_next", "static">>, ext |-> "js"],
      [segments |-> <<"favicon.ico">>, ext |-> "ico"],
      [segments |-> <<"logo">>, ext |-> "png"] }

startsWith(pathname, prefix) ==
    /\ Len(pathname.segments) >= Len(prefix)
    /\ SubSeq(pathname.segments, 1, Len(prefix)) = prefix

\* lines 8-17 of the middleware
IsPublic(pathname) ==
    \/ startsWith(pathname, <<"login">>)
    \/ startsWith(pathname, <<"unauthorized">>)
    \/ startsWith(pathname, <<"api", "login">>)
    \/ startsWith(pathname, <<"api", "logout">>)
    \/ startsWith(pathname, <<"api", "session">>)
    \/ startsWith(pathname, <<"_next">>)
    \/ startsWith(pathname, <<"favicon.ico">>)
    \/ pathname.ext \in {"svg", "png", "jpg", "jpeg", "gif", "webp", "ico"}

NoCookie == [present |-> FALSE]

\* the token POST /api/login writes: base64 of JSON {username, timestamp}
SessionToken(username, timestamp) ==
    [present |-> TRUE, text |-> "token", username |-> username, timestamp |-> timestamp]

\* cookie values a client can send that no login wrote: text that is no JSON,
\* the JSON null, an object with no timestamp, an object with a text timestamp
ForgedTexts == {"garbage", "null", "{}", "{timestamp:'x'}"}

ForgedCookie(text) == [present |-> TRUE, text |-> text]

\* JSON.parse(Buffer.from(value, 'base64').toString()): what the cookie decodes to
DecodeCookie(cookie) ==
    CASE cookie.text = "token" -> [type |-> "object", username |-> cookie.username,
                                   timestamp |-> cookie.timestamp, numeric |-> TRUE]
      [] cookie.text = "{}"    -> [type |-> "object", username |-> "", numeric |-> FALSE]
      [] cookie.text = "{timestamp:'x'}" ->
                                  [type |-> "object", username |-> "", numeric |-> FALSE]
      [] cookie.text = "null"  -> [type |-> "null"]
      [] OTHER                 -> [type |-> "throws"]

\* Date.now() - sessionData.timestamp > maxAge: the difference is NaN, and the
\* comparison false, when the timestamp is missing or no number
Expired(sessionData, t) ==
    sessionData.numeric /\ t - sessionData.timestamp > SessionMaxAge

\* reading sessionData.timestamp of null throws like a failed JSON.parse
Throws(sessionData) == sessionData.type \in {"throws", "null"}

Redirect(location, deletes) ==
    [action |-> "redirect", location |-> location, deletesCookie |-> deletes]

PassOn == [action |-> "next", location |-> "", deletesCookie |-> FALSE]

middleware(pathname, cookie, t) ==
    IF IsPublic(pathname) THEN PassOn
    ELSE IF ~cookie.present THEN Redirect("/login", FALSE)
    ELSE LET sessionData == DecodeCookie(cookie)
         IN  IF Throws(sessionData) THEN Redirect("/unauthorized", TRUE)
             ELSE IF Expired(sessionData, t) THEN Redirect("/unauthorized", TRUE)
             ELSE PassOn

\* faulty variant: a session with no numeric timestamp is refused
getSessionStrict(cookie, t) ==
    IF ~cookie.present THEN [status |-> 401, authenticated |-> FALSE]
    ELSE LET sessionData == DecodeCookie(cookie)
         IN  IF Throws(sessionData) \/ ~sessionData.numeric \/ Expired(sessionData, t)
             THEN [status |-> 401, authenticated |-> FALSE]
             ELSE [status |-> 200, authenticated |-> TRUE]

\* GET /api/session
getSession(cookie, t) ==
    IF ~cookie.present THEN [status |-> 401, authenticated |-> FALSE]
    ELSE LET sessionData == DecodeCookie(cookie)
         IN  IF Throws(sessionData) THEN [status |-> 401, authenticated |-> FALSE]
             ELSE IF Expired(sessionData, t) THEN [status |-> 401, authenticated |-> FALSE]
             ELSE [status |-> 200, authenticated |-> TRUE]

NotAsked == [acted |-> FALSE]

AuthStarted ==
    [ pc |-> "browsing", now |-> 0, ticks |-> 0, cookie |-> NoCookie,
      \* history, kept while the clock and the client's cookie stay as they are:
      passed |-> NotAsked,       \* the last request the middleware saw, and its answer
      session |-> NotAsked ]     \* the last GET /api/session, and its answer

AuthFrame ==
    UNCHANGED <<cacheVars, decodeVars, resolveVars, queryVars,
                backupPage, queryBuilder, bulk, health, tablePage>>

InitAuth ==
    /\ CacheIdle /\ DecodeIdle /\ ResolveIdle /\ QueryIdle
    /\ auth = AuthStarted
    /\ backupPage = NotMounted /\ queryBuilder = NotMounted /\ tablePage = NotMounted
    /\ bulk = NoRequest /\ health = NoRequest

\* POST /api/login; /api/login is public, so the middleware lets it pass
PostLogin(configured, credentialsOk) ==
    /\ auth.pc = "browsing"
    /\ auth' = IF configured /\ credentialsOk
               THEN [auth EXCEPT !.cookie = SessionToken("admin", auth.now),
                                 !.passed = NotAsked, !.session = NotAsked]
               ELSE auth    \* status 500 or 401, no cookie set
    /\ AuthFrame

\* the client sends what it likes as its cookie
SetCookie(cookie) ==
    /\ auth.pc = "browsing"
    /\ auth.cookie # cookie
    /\ auth' = [auth EXCEPT !.cookie = cookie, !.passed = NotAsked, !.session = NotAsked]
    /\ AuthFrame

\* a request for pathname goes through the middleware; the browser drops the
\* cookie when the response deletes it
Middleware(pathname) ==
    /\ auth.pc = "browsing"
    /\ LET answer == middleware(pathname, auth.cookie, auth.now)
       IN  auth' = [auth EXCEPT
                      !.passed = [acted |-> TRUE, pathname |-> pathname,
                                  cookie |-> auth.cookie, answer |-> answer],
                      !.cookie = IF answer.deletesCookie THEN NoCookie ELSE @]
    /\ AuthFrame

GetSession ==
    /\ auth.pc = "browsing"
    /\ auth' = [auth EXCEPT
                  !.session = [acted |-> TRUE, cookie |-> auth.cookie,
                               answer |-> getSession(auth.cookie, auth.now)]]
    /\ AuthFrame

AuthTick(ms) ==
    /\ auth.pc = "browsing"
    /\ auth.ticks < MaxAuthTicks
    /\ auth' = [auth EXCEPT !.now = @ + ms, !.ticks = @ + 1,
                             !.passed = NotAsked, !.session = NotAsked]
    /\ AuthFrame

NextAuth ==
    \/ \E configured \in BOOLEAN, credentialsOk \in BOOLEAN : PostLogin(configured, credentialsOk)
    \/ \E text \in ForgedTexts : SetCookie(ForgedCookie(text))
    \/ SetCookie(NoCookie)
    \/ \E pathname \in Pathnames : Middleware(pathname)
    \/ GetSession
    \/ \E ms \in TickChoices : AuthTick(ms)

SpecAuth == InitAuth /\ [][NextAuth]_vars

\* the paths the middleware is to guard: all but the listed ones and images
ProtectedPaths ==
    {p \in Pathnames :
        /\ p.ext \notin {"svg", "png", "jpg", "jpeg", "gif", "webp", "ico"}
        /\ p.segments = <<>> \/ p.segments[1] \notin {"login", "unauthorized", "_next", "api"}
           \/ (p.segments[1] = "api" /\ p.segments[2] \notin {"login", "logout", "session"})}

FreshSession(cookie, t) ==
    /\ cookie.present
    /\ cookie.text = "token"
    /\ t - cookie.timestamp <= 7 * 24 * 60 * 60 * 1000

\* C24: a request to a protected path passes the middleware only with a
\* cookie that decodes to a session whose timestamp is at most 7 days old;
\* with no cookie it is redirected to /login, with an expired or undecodable
\* cookie to /unauthorized, the cookie being deleted.
C24_MiddlewareGuards ==
    (auth.passed.acted /\ auth.passed.pathname \in ProtectedPaths) =>
        LET seen == auth.passed
        IN  /\ (seen.answer.action = "next") => FreshSession(seen.cookie, auth.now)
            /\ ~seen.cookie.present => seen.answer = Redirect("/login", FALSE)
            /\ (seen.cookie.present /\ ~FreshSession(seen.cookie, auth.now)
                  /\ seen.cookie.text \in {"token", "garbage", "null"})
                  => seen.answer = Redirect("/unauthorized", TRUE)

\* C27: the session endpoint and the middleware agree: asked with the same
\* cookie at the same time (the history is emptied when the clock advances), GET /api/session answers authenticated: true
\* exactly when the middleware lets a request to a protected path through.
C27_SessionAgreesWithMiddleware ==
    (/\ auth.passed.acted /\ auth.session.acted
     /\ auth.passed.pathname \in ProtectedPaths
     /\ auth.passed.cookie = auth.session.cookie)
        => (auth.session.answer.authenticated <=> auth.passed.answer.action = "next")

\* C27 witness: both were asked with the same cookie that has no timestamp
C27_Witness ==
    /\ auth.passed.acted /\ auth.session.acted
    /\ auth.passed.pathname \in ProtectedPaths
    /\ auth.passed.cookie = ForgedCookie("{}")
    /\ auth.session.cookie = ForgedCookie("{}")
    /\ auth.session.answer.authenticated

\* C25: row limiting in the SQL query route: fetchedRows is the number of rows
\* returned and at most totalRows, the rows returned are the first fetchedRows
\* rows of the result in order, fetchedRows <= maxRows whenever maxRows > 0,
\* every row is returned when maxRows is -1, and truncated holds exactly when
\* fetchedRows < totalRows.
C25_RowLimiting ==
    (response.status = 200 /\ query.sql \in {"select", "insert"})
        => LET given == IF query.results = <<>> THEN <<>> ELSE query.results[1].rows
           IN  /\ response.totalRows = Len(given)
               /\ response.fetchedRows = Len(response.rows)
               /\ response.fetchedRows <= response.totalRows
               /\ \A i \in 1..response.fetchedRows :
                     response.rows[i] = parseRowToObject(given[i], response.columns)
               /\ query.maxRows > 0 => response.fetchedRows <= query.maxRows
               /\ query.maxRows = -1 => response.fetchedRows = response.totalRows
               /\ response.truncated <=> response.fetchedRows < response.totalRows

\* C25 witness: two rows were asked for with maxRows 1 and one came back
C25_Witness ==
    /\ response.status = 200 /\ query.sql = "select" /\ query.maxRows = 1
    /\ response.totalRows = 2 /\ response.fetchedRows = 1 /\ response.truncated

(***************************************************************************)
(* GET /api/health: getTables over getDatabaseSchema, one step per await   *)
(* of request.                                                             *)
(***************************************************************************)
MaxTables == 2    \* a schema lists up to this many tables

\* the endpoints getDatabaseSchema tries in turn (part_008 lines 80-88)
SchemaAttempts(moduleVersion) ==
    (IF moduleVersion # "" THEN <<"schema?version=configured">> ELSE <<>>)
    \o <<"schema?version=published", "schema?version=latest",
         "schema?version=9", "schema?version=current">>

\* what one request comes to: the fetch throws, the answer is not ok, the
\* body is a schema of some tables, the body is JSON with no tables array
RequestOutcomes ==
    {[kind |-> "throws"], [kind |-> "notOk"], [kind |-> "noTables"]}
    \cup {[kind |-> "schema", tables |-> n] : n \in 0..MaxTables}

HealthResponse(h, tables) ==
    [h EXCEPT !.pc = "done",
              !.response = [status |-> 200, body |-> "connected", tables |-> tables]]

\* getTables' catch returns [] (part_008 lines 166-169), and the route
\* answers from that list (route.ts lines 15-24)
getTablesFailed(h) == HealthResponse(h, 0)

HealthStarted(moduleVersion) ==
    [ pc |-> "request", attempts |-> SchemaAttempts(moduleVersion),
      i |-> 1,                 \* the attempt awaited
      lastError |-> "",        \* lastError of getDatabaseSchema, "" for null
      errors |-> <<>>,         \* history: what each failed attempt came to
      retrieved |-> FALSE,     \* history: a schema with its table listing was received
      response |-> [status |-> 0] ]

HealthFrame ==
    UNCHANGED <<cacheVars, decodeVars, resolveVars, queryVars,
                backupPage, queryBuilder, bulk, auth, tablePage>>

InitHealth ==
    /\ CacheIdle /\ DecodeIdle /\ ResolveIdle /\ QueryIdle
    /\ health \in {HealthStarted(moduleVersion) : moduleVersion \in {"", "9"}}
    /\ backupPage = NotMounted /\ queryBuilder = NotMounted /\ tablePage = NotMounted
    /\ bulk = NoRequest /\ auth = NoRequest

\* the continuation of `await this.request(endpoint)` inside getDatabaseSchema,
\* and with it whatever getTables and the route do before the next await
RequestSettled(outcome) ==
    /\ health.pc = "request"
    /\ health' =
         IF outcome.kind = "schema"
         THEN HealthResponse([health EXCEPT !.retrieved = TRUE], outcome.tables)
         ELSE IF outcome.kind = "noTables"
         THEN getTablesFailed(health)      \* schema.tables.map throws inside getTables
         ELSE LET failed == [health EXCEPT !.lastError = outcome.kind,
                                            !.errors = Append(@, outcome.kind)]
              IN  IF health.i < Len(health.attempts)
                  THEN [failed EXCEPT !.i = @ + 1]
                  ELSE getTablesFailed(failed)    \* throw lastError, caught by getTables
    /\ HealthFrame

NextHealth == \E outcome \in RequestOutcomes : RequestSettled(outcome)

SpecHealth == InitHealth /\ [][NextHealth]_vars

\* C26: the health check answers status 'error' with HTTP 500 whenever the
\* table listing could not be fetched, and 'connected' only when the listing
\* was retrieved.
C26_HealthReportsConnection ==
    (health.pc = "done") =>
        /\ ~health.retrieved => (health.response.status = 500 /\ health.response.body = "error")
        /\ health.response.body = "connected" => health.retrieved

(***************************************************************************)
(* The table page: client-side pagination, row selection and bulk delete.  *)
(* A row is identified by its key; the page sizes 10, 25, 50 and 100 are   *)
(* scaled down to 2 and 3.                                                 *)
(***************************************************************************)
MaxTableRows == 4    \* the table starts with this many rows

PageSizeChoices == {2, 3}

MatchesCustomQuery(row) == row > 2

\* displayData?.rows (lines 71, 384)
AllRows(tp) == IF tp.hasQueryResults THEN tp.queryResults ELSE tp.tableData

\* allRows.slice(startIndex, endIndex) (lines 391-393)
PageRows(tp) ==
    LET startIndex == (tp.page - 1) * tp.pageSize
        endIndex == startIndex + tp.pageSize
        last == IF endIndex < Len(AllRows(tp)) THEN endIndex ELSE Len(AllRows(tp))
    IN  SubSeq(AllRows(tp), startIndex + 1, last)

\* rows[idx] for the index idx counted from 0; 0 stands for undefined
RowAt(tp, idx) == IF idx < Len(PageRows(tp)) THEN PageRows(tp)[idx + 1] ELSE 0

TablePageMounted ==
    [ mounted |-> TRUE, page |-> 1, pageSize |-> 2,
      tableData |-> [i \in 1..MaxTableRows |-> i],
      hasQueryResults |-> FALSE, queryResults |-> <<>>,
      selectedRows |-> {}, showDeleteDialog |-> FALSE, isDeleting |-> FALSE,
      ticked |-> {},       \* history: <<index, row>> for each index ticked, the row shown then
      \* history of the bulk delete under way:
      deleteRan |-> FALSE, \* handleBulkDelete has built its statements
      intended |-> {},     \* the rows that were ticked
      issued |-> {} ]      \* the rows the DELETE statements name

TableFrame ==
    UNCHANGED <<cacheVars, decodeVars, resolveVars, queryVars,
                backupPage, queryBuilder, bulk, auth, health>>

InitTable ==
    /\ CacheIdle /\ DecodeIdle /\ ResolveIdle /\ QueryIdle
    /\ tablePage = TablePageMounted
    /\ backupPage = NotMounted /\ queryBuilder = NotMounted
    /\ bulk = NoRequest /\ auth = NoRequest /\ health = NoRequest

\* the page answers the user while no dialog is open
Interactive == ~tablePage.showDeleteDialog /\ ~tablePage.isDeleting

HandleSelectRow(index) ==
    /\ Interactive
    /\ index < Len(PageRows(tablePage))
    /\ tablePage' =
         IF index \in tablePage.selectedRows
         THEN [tablePage EXCEPT !.selectedRows = @ \ {index},
                                !.ticked = {t \in @ : t[1] # index}]
         ELSE [tablePage EXCEPT !.selectedRows = @ \cup {index},
                                !.ticked = {t \in @ : t[1] # index}
                                             \cup {<<index, RowAt(tablePage, index)>>}]
    /\ TableFrame

HandleSelectAll ==
    /\ Interactive
    /\ Len(PageRows(tablePage)) > 0
    /\ tablePage' =
         IF Cardinality(tablePage.selectedRows) = Len(PageRows(tablePage))
         THEN [tablePage EXCEPT !.selectedRows = {}, !.ticked = {}]
         ELSE [tablePage EXCEPT
                 !.selectedRows = {idx - 1 : idx \in DOMAIN PageRows(tablePage)},
                 !.ticked = {<<idx - 1, PageRows(tablePage)[idx]>> :
                                idx \in DOMAIN PageRows(tablePage)}]
    /\ TableFrame

\* the Next button (lines 667-670)
NextPage ==
    /\ Interactive
    /\ tablePage.page * tablePage.pageSize < Len(AllRows(tablePage))
    /\ tablePage' = [tablePage EXCEPT !.page = @ + 1]
    /\ TableFrame

\* the Previous button (lines 653-656)
PreviousPage ==
    /\ Interactive
    /\ tablePage.page # 1
    /\ tablePage' = [tablePage EXCEPT !.page = @ - 1]
    /\ TableFrame

\* the page size select, with the effect of lines 48-50
SetPageSize(size) ==
    /\ Interactive
    /\ size # tablePage.pageSize
    /\ tablePage' = [tablePage EXCEPT !.pageSize = size, !.page = 1]
    /\ TableFrame

\* what a refetch brings: the table as it was, or without its first row,
\* which someone else deleted
Refetched(tableData) ==
    {tableData} \cup (IF tableData = <<>> THEN {} ELSE {Tail(tableData)})

\* handleRefresh (lines 73-84)
HandleRefresh(data) ==
    /\ Interactive
    /\ data \in Refetched(tablePage.tableData)
    /\ tablePage' = [tablePage EXCEPT !.hasQueryResults = FALSE, !.queryResults = <<>>,
                                      !.page = 1, !.tableData = data]
    /\ TableFrame

\* the interval of lines 53-63; customQuery is set while query results show
AutoRefresh(data) ==
    /\ ~tablePage.hasQueryResults
    /\ ~tablePage.isDeleting
    /\ data \in Refetched(tablePage.tableData)
    /\ data # tablePage.tableData
    /\ tablePage' = [tablePage EXCEPT !.tableData = data]
    /\ TableFrame

\* handleExecuteQuery with a SELECT that succeeds (lines 129-150)
HandleExecuteQuery ==
    /\ Interactive
    /\ ~tablePage.hasQueryResults
    /\ tablePage' = [tablePage EXCEPT
                       !.hasQueryResults = TRUE,
                       !.queryResults = SelectSeq(tablePage.tableData, MatchesCustomQuery),
                       !.page = 1]
    /\ TableFrame

\* the Delete button of line 427 and the Cancel button of line 696
SetShowDeleteDialog(open) ==
    /\ ~tablePage.isDeleting
    /\ tablePage.showDeleteDialog # open
    /\ open => tablePage.selectedRows # {}
    /\ tablePage' = [tablePage EXCEPT !.showDeleteDialog = open]
    /\ TableFrame

\* handleBulkDelete up to `await Promise.all`: a DELETE is sent for rows[idx]
\* of every selected idx; an idx beyond the rows shown yields undefined, and
\* reading a column of it throws
HandleBulkDelete ==
    /\ tablePage.showDeleteDialog /\ ~tablePage.isDeleting
    /\ tablePage.selectedRows # {}
    /\ tablePage' = [tablePage EXCEPT
                       !.isDeleting = TRUE, !.deleteRan = TRUE,
                       !.intended = {t[2] : t \in tablePage.ticked},
                       !.issued = {RowAt(tablePage, idx) : idx \in tablePage.selectedRows} \ {0}]
    /\ TableFrame

\* the continuation (lines 285-334); the database carries out the statements
\* or refuses them
BulkDeleteSettled(ok) ==
    /\ tablePage.isDeleting
    /\ LET allBuilt == \A idx \in tablePage.selectedRows : RowAt(tablePage, idx) # 0
           Kept(row) == row \notin tablePage.issued
           remaining == SelectSeq(tablePage.tableData, Kept)
           settled == [tablePage EXCEPT !.isDeleting = FALSE, !.deleteRan = FALSE,
                                        !.intended = {}, !.issued = {}]
       IN  tablePage' =
             IF ok /\ allBuilt
             THEN [settled EXCEPT !.selectedRows = {}, !.ticked = {},
                                  !.showDeleteDialog = FALSE, !.tableData = remaining]
             ELSE settled    \* the catch: no refetch, the selection stays
    /\ TableFrame

NextTable ==
    \/ \E index \in 0..(MaxTableRows - 1) : HandleSelectRow(index)
    \/ HandleSelectAll
    \/ NextPage
    \/ PreviousPage
    \/ \E size \in PageSizeChoices : SetPageSize(size)
    \/ \E data \in Refetched(tablePage.tableData) : HandleRefresh(data)
    \/ \E data \in Refetched(tablePage.tableData) : AutoRefresh(data)
    \/ HandleExecuteQuery
    \/ \E open \in BOOLEAN : SetShowDeleteDialog(open)
    \/ HandleBulkDelete
    \/ \E ok \in BOOLEAN : BulkDeleteSettled(ok)

SpecTable == InitTable /\ [][NextTable]_vars

\* C28: bulk delete deletes exactly the rows the user ticked: every index in
\* the selection denotes the row that was displayed at that index when it was
\* ticked, and the DELETE statements issued name the ticked rows and no others.
C28_DeletesTickedRows ==
    /\ \A t \in tablePage.ticked :
          t[1] \in tablePage.selectedRows => RowAt(tablePage, t[1]) = t[2]
    /\ tablePage.deleteRan => tablePage.issued = tablePage.intended

\* C29: cache invalidation under concurrency: no getAllTables(false) call that
\* starts after clearCache() returned is served tables from a rediscovery
\* that began before that clearCache().
C29_ClearCacheEffective ==
    [][\A c \in Callers :
         (/\ Starts(c) /\ calls'[c].op = "getAllTables" /\ ~calls'[c].forceRefresh
          /\ calls'[c].served = "cache")
            => ~(\E d \in Callers :
                    /\ lastWriter = d
                    /\ calls[d].op = "getAllTables" /\ calls[d].served = "full"
                    /\ calls[d].pc = "done"
                    /\ calls[d].clearedMeanwhile)]_vars

====
